---- MODULE Spec2Model ----
(***************************************************************************)
(* vcon: a command-line controller for vSphere virtual machines.           *)
(*                                                                         *)
(* The module models one CLI invocation (cobra PreRunE -> RunE -> main's   *)
(* exit code), the client operations it calls (each one deadline scope and *)
(* a sequence of guarded remote calls), the Go error values that travel    *)
(* from the deadline guard to main, and the two path transforms.           *)
(*                                                                         *)
(* Strings whose content matters (paths, task fault messages) are          *)
(* sequences of one-character strings.                                     *)
(***************************************************************************)
EXTENDS Integers, Sequences, FiniteSets, TLC

VARIABLES
    cli,        \* the parsed command line: verb, flags, credentials
    cpc,        \* position in main / cobra / the command's RunE
    opc,        \* position inside the client operation being executed
    args,       \* arguments of the client operation being executed
    loc,        \* local variables of the client operation being executed
    vm,         \* the *VirtualMachine the command holds (Ref, MO)
    ctxOpen,    \* number of deadline scopes currently open
    ctxDone,    \* TRUE once the open scope's deadline has elapsed
    ret,        \* what the last call returned to its caller: (value, error)
    exitCode,   \* process exit code, "running" until main exits
    calls,      \* remote calls issued so far, in order
    host,       \* the vSphere side: the target VM
    ft,         \* the frame of the finishTask call in progress / last made
    guard,      \* the last evaluation of checkErr: inputs and result
    opTimedOut, \* checkErr returned a TimeoutExceededError in this operation
    hist,       \* what has happened in this invocation (observation only)
    pArg,       \* path transforms: the argument
    pDC,        \* path transforms: the datacenter name
    pInv,       \* path transforms: result of makeInventoryPath
    pOut,       \* path transforms: result of makePath
    pStage      \* path transforms: which transform has been applied

cmdVars  == <<cli, cpc, args, vm, exitCode>>
cliVars  == <<cli, cpc, opc, args, loc, vm, ctxOpen, ctxDone, ret, exitCode,
              calls, host, ft, guard, opTimedOut, hist>>
pathVars == <<pArg, pDC, pInv, pOut, pStage>>
vars     == <<cli, cpc, opc, args, loc, vm, ctxOpen, ctxDone, ret, exitCode,
              calls, host, ft, guard, opTimedOut, hist,
              pArg, pDC, pInv, pOut, pStage>>

(***************************************************************************)
(* Bounds                                                                  *)
(***************************************************************************)
MaxPathLen == 7
MaxMsgLen  == 2
MaxDevices == 3

PathChars == {"/", "D", "v", "m"}
MsgChars  == {"a", "%"}

SeqsUpTo(S, n) == UNION {[1..k -> S] : k \in 0..n}

Paths == SeqsUpTo(PathChars, MaxPathLen)
Msgs  == SeqsUpTo(MsgChars, MaxMsgLen)

DatacenterNames == {<<"D">>, <<"m", "D">>}

(***************************************************************************)
(* Go error values                                                         *)
(***************************************************************************)
Nil == [type |-> "nil"]

NoText == <<>>

MkErr(type, ptr, msg, text, cause) ==
    [type |-> type, ptr |-> ptr, msg |-> msg, text |-> text, cause |-> cause]

\* an error returned by the vSphere SDK (soap fault, lookup failure, ...)
SdkError == MkErr("sdkError", TRUE, "sdk", NoText, Nil)

\* context.DeadlineExceeded
ContextDeadlineExceeded == MkErr("deadlineExceededError", FALSE, "context deadline exceeded", NoText, Nil)

\* TimeoutExceededError{timeout: c.timeout}: a struct value, not a pointer
TimeoutExceededErrorValue == MkErr("TimeoutExceededError", FALSE, "Timed out", NoText, Nil)

\* &vcon.ConnectionError{}
ConnectionErrorPtr == MkErr("ConnectionError", TRUE, "Failed to connect to vSphere", NoText, Nil)

\* errors.New / fmt.Errorf with a literal message
Errorf(msg) == MkErr("errorString", TRUE, msg, NoText, Nil)

\* errors.Wrap / errors.Wrapf: nil stays nil, otherwise one more layer
Wrap(e, msg) == IF e = Nil THEN Nil ELSE MkErr("withStack", TRUE, msg, NoText, e)

\* the types that have a Cause() method
IsCauser(e) == e.type \in {"withStack", "TimeoutExceededError"}

CauseMethod(e) == IF e.type = "withStack" THEN e.cause ELSE ContextDeadlineExceeded

\* errors.Cause: follow Cause() while the error has one
RECURSIVE Cause(_)
Cause(e) == IF e # Nil /\ IsCauser(e) THEN Cause(CauseMethod(e)) ELSE e

\* case *TimeoutExceededError: of the call sites' type switch
IsTimeoutPtr(e) == e # Nil /\ e.type = "TimeoutExceededError" /\ e.ptr

\* the switch after every operation body
Classify(e, timeoutMsg, otherMsg) ==
    IF e = Nil THEN Nil
    ELSE IF IsTimeoutPtr(Cause(e)) THEN Errorf(timeoutMsg)
    ELSE Wrap(Cause(e), otherMsg)

\* ErrorCoder: the types with a Code() method, and their codes
IsErrorCoder(e) == e # Nil /\ e.type \in {"ConnectionError", "NotFoundError", "TimeoutExceededError"}

Code(e) == CASE e.type = "ConnectionError"      -> 1
             [] e.type = "NotFoundError"        -> 2
             [] e.type = "TimeoutExceededError" -> 3

\* main: the exit code for what rootCmd.Execute returned
mainExit(e) == IF e = Nil THEN 0 ELSE IF IsErrorCoder(e) THEN Code(e) ELSE -1

(***************************************************************************)
(* Path transforms                                                         *)
(***************************************************************************)
HasPrefix(s, p) == Len(s) >= Len(p) /\ SubSeq(s, 1, Len(p)) = p

Drop(s, n) == SubSeq(s, n + 1, Len(s))

VmSegment == <<"/", "v", "m", "/">>

\* strings.TrimLeft(path, "/"): every leading slash goes
RECURSIVE TrimLeftSlashes(_)
TrimLeftSlashes(s) == IF HasPrefix(s, <<"/">>) THEN TrimLeftSlashes(Drop(s, 1)) ELSE s

makeInventoryPath_TrimAll(dc, path) ==
    <<"/">> \o dc \o VmSegment \o TrimLeftSlashes(path)

makeInventoryPath(dc, path) ==
    LET p == IF HasPrefix(path, <<"/">>) THEN Drop(path, 1) ELSE path
    IN  <<"/">> \o dc \o VmSegment \o p

\* the datacenter segment is stripped, the "/vm/" segment is left in place
makePath_KeepVm(dc, inventoryPath) ==
    LET datacenterNameSegment == <<"/">> \o dc
    IN  IF HasPrefix(inventoryPath, datacenterNameSegment)
        THEN Drop(inventoryPath, Len(datacenterNameSegment))
        ELSE inventoryPath

\* the "/vm/" strip is attempted whether or not the datacenter was stripped
makePath_VmAlways(dc, inventoryPath) ==
    LET datacenterNameSegment == <<"/">> \o dc
        p == IF HasPrefix(inventoryPath, datacenterNameSegment)
             THEN Drop(inventoryPath, Len(datacenterNameSegment))
             ELSE inventoryPath
    IN  IF HasPrefix(p, VmSegment) THEN Drop(p, 4) ELSE p

makePath(dc, inventoryPath) ==
    LET datacenterNameSegment == <<"/">> \o dc
    IN  IF HasPrefix(inventoryPath, datacenterNameSegment)
        THEN LET p == Drop(inventoryPath, Len(datacenterNameSegment))
             IN  IF HasPrefix(p, VmSegment) THEN Drop(p, 4) ELSE p
        ELSE inventoryPath

(***************************************************************************)
(* The path transforms applied to every bounded path                       *)
(***************************************************************************)
\* the command-line variables while only a path transform is applied: no
\* handle (a handle whose MO field is nil has the empty snapshot), no history
NilMO   == [props |-> {}]
NoVM    == [ref |-> "none", mo |-> NilMO, fetches |-> 0]
NoHist  == [newClientFailed |-> FALSE, bodyRan |-> FALSE, lookupEmpty |-> FALSE,
            entry |-> 0, power0 |-> "none"]

CliIdle ==
    /\ cli = [verb |-> "none"]
    /\ cpc = "idle"
    /\ opc = "idle"
    /\ args = [op |-> "none"]
    /\ loc = [op |-> "none"]
    /\ vm = NoVM
    /\ ctxOpen = 0
    /\ ctxDone = FALSE
    /\ ret = [err |-> Nil, val |-> "none"]
    /\ exitCode = "running"
    /\ calls = <<>>
    /\ host = [exists |-> FALSE, power |-> "poweredOff", destroyed |-> FALSE,
               annotation |-> <<>>, snapshots |-> 0, devices |-> <<>>,
               networks |-> <<>>, hostNetworks |-> {}, cpus |-> 1, memory |-> 1]
    /\ ft = [phase |-> "none"]
    /\ guard = [evaluated |-> FALSE]
    /\ opTimedOut = FALSE
    /\ hist = NoHist

PathInit ==
    /\ CliIdle
    /\ pArg \in Paths
    /\ pDC \in DatacenterNames
    /\ pInv = <<>>
    /\ pOut = <<>>
    /\ pStage = "input"

\* makeInventoryPath(pArg)
ApplyMakeInventoryPath ==
    /\ pStage = "input"
    /\ pInv' = makeInventoryPath(pDC, pArg)
    /\ pStage' = "inventory"
    /\ UNCHANGED <<pArg, pDC, pOut>>
    /\ UNCHANGED cliVars

\* makePath(pArg)
ApplyMakePath ==
    /\ pStage = "input"
    /\ pOut' = makePath(pDC, pArg)
    /\ pStage' = "logical"
    /\ UNCHANGED <<pArg, pDC, pInv>>
    /\ UNCHANGED cliVars

\* makePath(makeInventoryPath(pArg))
ApplyRoundTrip ==
    /\ pStage = "inventory"
    /\ pOut' = makePath(pDC, pInv)
    /\ pStage' = "roundtrip"
    /\ UNCHANGED <<pArg, pDC, pInv>>
    /\ UNCHANGED cliVars

PathNext == ApplyMakeInventoryPath \/ ApplyMakePath \/ ApplyRoundTrip

SpecPath == PathInit /\ [][PathNext]_vars

(***************************************************************************)
(* Claims about the path transforms (checked under SpecPath)               *)
(***************************************************************************)
DatacenterPrefixed(dc, p) == HasPrefix(p, <<"/">> \o dc) \/ HasPrefix(p, dc)

\* C8 as stated: for every logical path p that is not already prefixed with
\* the datacenter name, paths with a leading "/" included,
\* makePath(makeInventoryPath(p)) = p.
C8_RoundTripEveryPath ==
    (pStage = "roundtrip" /\ ~DatacenterPrefixed(pDC, pArg)) => pOut = pArg

\* C8 amended: makePath(makeInventoryPath(p)) is p without its one leading
\* "/" if it has one; it equals p exactly when p does not begin with "/".
C8_RoundTrip ==
    pStage = "roundtrip" =>
        /\ pOut = (IF HasPrefix(pArg, <<"/">>) THEN Drop(pArg, 1) ELSE pArg)
        /\ (pOut = pArg) <=> ~HasPrefix(pArg, <<"/">>)

C8_Witness ==
    /\ pStage = "roundtrip"
    /\ Len(pArg) >= 3
    /\ ~HasPrefix(pArg, <<"/">>)
    /\ \E i \in 2..Len(pArg) : pArg[i] = "/"
    /\ pOut = pArg

\* C9: makeInventoryPath(p) removes exactly one leading "/" when present,
\* never more, and returns "/" + D + "/vm/" + the rest; so "/x" and "x" give
\* the same inventory path, and nothing else is normalised.
C9_InventoryPath ==
    pStage \in {"inventory", "roundtrip"} =>
        LET rest == IF pArg # <<>> /\ pArg[1] = "/" THEN Tail(pArg) ELSE pArg
        IN  /\ pInv = <<"/">> \o pDC \o <<"/", "v", "m", "/">> \o rest
            /\ Len(pInv) = Len(pDC) + 5 + Len(rest)
            /\ (~HasPrefix(pArg, <<"/">>) =>
                    makeInventoryPath(pDC, <<"/">> \o pArg) = pInv)

C9_Witness ==
    /\ pStage = "inventory"
    /\ HasPrefix(pArg, <<"/", "/">>)
    /\ Len(pArg) >= 3
    /\ pInv = <<"/">> \o pDC \o <<"/", "v", "m", "/">> \o Tail(pArg)

\* C10: makePath(p) strips "/" + D when p begins with it (a plain string
\* prefix) and then "/vm/" when the remainder begins with it; a p that does
\* not begin with "/" + D is returned unchanged, "/vm/" included.
C10_MakePath ==
    pStage = "logical" =>
        LET seg == <<"/">> \o pDC
        IN  /\ HasPrefix(pArg, seg \o VmSegment) => pArg = seg \o VmSegment \o pOut
            /\ (HasPrefix(pArg, seg) /\ ~HasPrefix(pArg, seg \o VmSegment))
                    => pArg = seg \o pOut
            /\ ~HasPrefix(pArg, seg) => pOut = pArg

C10_Witness ==
    /\ pStage = "logical"
    /\ HasPrefix(pArg, <<"/">> \o pDC \o VmSegment)
    /\ Len(pOut) >= 1
    /\ pArg = <<"/">> \o pDC \o VmSegment \o pOut

(***************************************************************************)
(* Deadline guard and task poller                                          *)
(***************************************************************************)
\* the underlying error wins over an elapsed deadline
checkErr_ErrFirst(done, err) ==
    IF err # Nil THEN err ELSE IF done THEN TimeoutExceededErrorValue ELSE Nil

\* select { case <-ctx.Done(): timeout; default: err }
checkErr(done, err) ==
    IF done THEN TimeoutExceededErrorValue ELSE err

IsTimeoutValue(e) == e # Nil /\ e.type = "TimeoutExceededError"

\* fmt's rendering of a format string that is given no operands
NoVerbString  == <<"%", "!", "(", "N", "O", "V", "E", "R", "B", ")">>
MissingString == <<"(", "M", "I", "S", "S", "I", "N", "G", ")">>

RECURSIVE Sprintf(_)
Sprintf(format) ==
    IF format = <<>> THEN <<>>
    ELSE IF Head(format) # "%" THEN <<Head(format)>> \o Sprintf(Tail(format))
    ELSE IF Len(format) = 1 THEN NoVerbString
    ELSE IF format[2] = "%" THEN <<"%">> \o Sprintf(Drop(format, 2))
    ELSE <<"%", "!", format[2]>> \o MissingString \o Sprintf(Drop(format, 2))

\* fmt.Errorf(format) with the format taken from data
ErrorfFormat(format) == MkErr("errorString", TRUE, "", Sprintf(format), Nil)

\* the submission error is not looked at: the wait is entered regardless
finishTaskSubmit_NoCheck(done, err) ==
    [returned |-> FALSE, res |-> "nil", err |-> Nil]

\* finishTask, first half: the guard on the submission's error
finishTaskSubmit(done, err) ==
    LET g == checkErr(done, err)
    IN  [returned |-> g # Nil, res |-> "nil", err |-> Wrap(g, "While suspend")]

\* a task that succeeded is a success even if the deadline has elapsed
finishTaskWait_SuccessFirst(done, err, ti) ==
    IF err = Nil /\ ti.state = "success"
    THEN [res |-> ti.result, err |-> Nil]
    ELSE [res |-> "nil",
          err |-> Wrap(checkErr(TRUE, err), "While waiting for task to finish")]

\* finishTask, second half: the guard on the wait's error, then the state.
\* ti = [state, result, msg] is the TaskInfo WaitForResult returned.
finishTaskWait(done, err, ti) ==
    LET g == checkErr(done, err)
    IN  IF g # Nil
        THEN [res |-> "nil", err |-> Wrap(g, "While waiting for task to finish")]
        ELSE IF ti.state # "success"
        THEN [res |-> "nil", err |-> ErrorfFormat(ti.msg)]
        ELSE [res |-> ti.result, err |-> Nil]

\* Error(): the message of a finishTask failure built from the task's fault
ErrorText(e) == e.text

(***************************************************************************)
(* One CLI invocation                                                      *)
(***************************************************************************)
SdkErrs == {Nil, SdkError}

PowerStates == {"poweredOff", "poweredOn", "suspended"}

\* vcon.PowerState
PoweredOff == "powered_off"
PoweredOn  == "powered_on"
Suspended  == "suspended"
Unknown    == "unknown"

TargetPath     == <<"/", "v">>
MainDatacenter == <<"D">>
VmRef          == "vm-1"
NewVmRef       == "vm-2"
NewNote        == <<"B">>
Annotations    == {<<>>, <<"A">>}

\* a virtual device of the VM: a network adapter with the name of the network
\* its backing refers to, or a device of another kind
Adapter(n) == [kind |-> "adapter", net |-> n]
Disk       == [kind |-> "disk", net |-> "none"]

\* the networks the VM's adapters start on, and the ones a request can name
AttachedNames  == {"A", "B"}
RequestedNames == {"A", "B", "C"}

Range(s) == {s[i] : i \in 1..Len(s)}

\* device lists with at least one network adapter
DeviceLists ==
    {d \in SeqsUpTo({Adapter("A"), Adapter("B"), Disk}, MaxDevices) :
        \E i \in 1..Len(d) : d[i].kind = "adapter"}

\* the networks the adapters of a device list are attached to
AttachedNetworks(devices) ==
    {devices[i].net : i \in {j \in 1..Len(devices) : devices[j].kind = "adapter"}}

\* vm.network of a VM with these devices: its networks, in either order
NetworkLists(devices) ==
    {n \in SeqsUpTo(AttachedNames, 2) :
        /\ Range(n) = AttachedNetworks(devices)
        /\ Len(n) = Cardinality(AttachedNetworks(devices))}

\* VirtualMachineConfiguration: a nil *int is <<>>, a set one <<n>>; a nil
\* *string is "nil"
NoVmc == [cpus |-> <<>>, memory |-> <<>>, network |-> "nil"]

\* what json.Unmarshal makes of a CONFIGURATION argument that is JSON
Configurations ==
    [cpus : {<<>>, <<2>>}, memory : {<<>>, <<2>>}, network : {"nil"} \cup RequestedNames]

\* the --configuration values given to clone
CloneConfigurations ==
    {c \in Configurations : c.memory = <<>> /\ c.network \in {"nil", "B"}}

\* cc.Args of each command: the least and the greatest number of positional
\* arguments cobra accepts (NoArgs, ExactArgs(n), RangeArgs(min, max))
Args(verb) ==
    CASE verb = "test"            -> [min |-> 0, max |-> 0]
      [] verb = "power"           -> [min |-> 2, max |-> 2]
      [] verb = "note"            -> [min |-> 1, max |-> 2]
      [] verb = "configure"       -> [min |-> 1, max |-> 2]
      [] verb = "snapshot remove" -> [min |-> 2, max |-> 3]
      [] verb = "snapshot revert" -> [min |-> 1, max |-> 2]
      [] OTHER                    -> [min |-> 1, max |-> 1]

\* flags at their defaults, the least number of positional arguments
Flags(verb) ==
    [verb |-> verb, force |-> FALSE, targetIsRef |-> FALSE,
     overwrite |-> FALSE, state |-> "", configuration |-> NoVmc, jsonOk |-> TRUE,
     on |-> TRUE, withConfiguration |-> FALSE,
     params |-> Args(verb).min, snapshot |-> "", snapshotIsRef |-> FALSE,
     name |-> "", destination |-> <<>>]

Commands ==
         {Flags("test")}
    \cup {[Flags("destroy") EXCEPT !.force = f, !.targetIsRef = r] :
             f \in BOOLEAN, r \in BOOLEAN}
    \cup {[Flags("power") EXCEPT !.state = st, !.targetIsRef = r] :
             st \in {"on", "off", "suspend", "reboot"}, r \in BOOLEAN}
    \cup {[Flags("note") EXCEPT !.overwrite = o, !.targetIsRef = r] :
             o \in BOOLEAN, r \in BOOLEAN}
    \cup {[Flags("snapshot create") EXCEPT !.targetIsRef = r] : r \in BOOLEAN}
    \cup {[Flags("configure") EXCEPT !.configuration = c] : c \in Configurations}
    \cup {[Flags("configure") EXCEPT !.jsonOk = FALSE]}
    \cup {[Flags("info") EXCEPT !.targetIsRef = r] : r \in BOOLEAN}
    \cup {[Flags("clone") EXCEPT !.on = o] : o \in BOOLEAN}
    \cup {[Flags("clone") EXCEPT !.on = o, !.withConfiguration = TRUE,
                                 !.configuration = c] :
             o \in BOOLEAN, c \in CloneConfigurations}
    \cup {[Flags("clone") EXCEPT !.on = o, !.withConfiguration = TRUE,
                                 !.jsonOk = FALSE] : o \in BOOLEAN}
    \cup {[Flags("snapshot remove") EXCEPT !.params = 1]}
    \cup {[Flags("snapshot remove") EXCEPT !.params = n, !.snapshot = sn,
                                           !.snapshotIsRef = r] :
             n \in 2..3, sn \in {"", "s"}, r \in BOOLEAN}
    \cup {[Flags("snapshot revert") EXCEPT !.params = 1]}
    \cup {[Flags("snapshot revert") EXCEPT !.params = 2, !.snapshot = "s",
                                           !.snapshotIsRef = r] : r \in BOOLEAN}
    \cup {[Flags("snapshot list") EXCEPT !.targetIsRef = r] : r \in BOOLEAN}
    \cup {[Flags("relocate") EXCEPT !.name = n, !.destination = d,
                                    !.targetIsRef = r] :
             n \in {"", "n"}, d \in {<<>>, <<"f">>}, r \in BOOLEAN}

Credentials ==
    [username : {"", "u"}, password : {"", "p"}, prompt : BOOLEAN, urlOk : BOOLEAN]

\* the configure, info, clone, relocate and snapshot list/remove/revert verbs
\* are run with credentials that are complete
CredentialsOf(verb) ==
    IF verb \in {"configure", "info", "clone", "snapshot remove", "snapshot revert",
                 "snapshot list", "relocate"}
    THEN {k \in Credentials : k.username # "" /\ k.password # "" /\ ~k.prompt}
    ELSE Credentials

Hosts(verb) ==
    {h \in [exists : BOOLEAN, power : PowerStates, destroyed : {FALSE},
            annotation : IF verb = "note" THEN Annotations ELSE {<<>>},
            snapshots : IF verb \in {"snapshot remove", "snapshot revert",
                                     "snapshot list"}
                        THEN {0, 1} ELSE {0},
            devices : IF verb = "configure" THEN DeviceLists ELSE {<<Adapter("A")>>},
            networks : SeqsUpTo(AttachedNames, 2),
            hostNetworks : {{"A", "B"}, {"A", "B", "C"}},
            cpus : {1}, memory : {1}] :
        /\ h.networks \in NetworkLists(h.devices)
        /\ verb # "configure" => h.hostNetworks = {"A", "B"}}

Init ==
    /\ \E c \in Commands :
         /\ \E k \in CredentialsOf(c.verb) : cli = [cmd |-> c, cred |-> k]
         /\ host \in Hosts(c.verb)
    /\ cpc = "preRunE"
    /\ opc = "idle"
    /\ args = [op |-> "none"]
    /\ loc = [op |-> "none"]
    /\ vm = NoVM
    /\ ctxOpen = 0
    /\ ctxDone = FALSE
    /\ ret = [err |-> Nil, val |-> "none"]
    /\ exitCode = "running"
    /\ calls = <<>>
    /\ ft = [phase |-> "none"]
    /\ guard = [evaluated |-> FALSE]
    /\ opTimedOut = FALSE
    /\ hist = [NoHist EXCEPT !.power0 = host.power]
    /\ pArg = <<>>
    /\ pDC = MainDatacenter
    /\ pInv = <<>>
    /\ pOut = <<>>
    /\ pStage = "input"

----------------------------------------------------------------------------
\* Building blocks of the operations' actions

\* a remote call is issued and its error goes through checkErr
Guarded(call, arg, e) ==
    /\ calls' = Append(calls, [call |-> call, arg |-> arg, err |-> e])
    /\ guard' = [evaluated |-> TRUE, done |-> ctxDone, in |-> e,
                 out |-> checkErr(ctxDone, e)]
    /\ opTimedOut' = (opTimedOut \/ IsTimeoutValue(checkErr(ctxDone, e)))

\* context.WithTimeout(context.Background(), c.timeout)
OpenScope ==
    /\ ctxOpen' = ctxOpen + 1
    /\ ctxDone' = FALSE
    /\ opTimedOut' = FALSE

\* the operation goes on to its next call site
Continue(label) ==
    /\ opc' = label
    /\ UNCHANGED <<ctxOpen, ctxDone, ret>>

\* the body returns e without the deferred cancelFn()
Return_LeakScope(e, val, timeoutMsg, otherMsg) ==
    /\ opc' = "idle"
    /\ ret' = [err |-> Classify(e, timeoutMsg, otherMsg),
               val |-> IF e = Nil THEN val ELSE "none"]
    /\ UNCHANGED <<ctxOpen, ctxDone>>

\* the body returns e; defer cancelFn(); the switch on errors.Cause(e)
Return(e, val, timeoutMsg, otherMsg) ==
    /\ opc' = "idle"
    /\ ctxOpen' = ctxOpen - 1
    /\ ret' = [err |-> Classify(e, timeoutMsg, otherMsg),
               val |-> IF e = Nil THEN val ELSE "none"]
    /\ UNCHANGED ctxDone

\* the first statements of an operation body: the scope is opened
OpBegin(op, first) ==
    /\ opc = op
    /\ OpenScope
    /\ opc' = first
    /\ hist' = [hist EXCEPT !.entry = Len(calls)]
    /\ UNCHANGED <<loc, ret, calls, host, ft, guard>>
    /\ UNCHANGED cmdVars
    /\ UNCHANGED pathVars

\* a call site `x, err := call(ctx); if err := c.checkErr(ctx, err); err != nil
\* { return errors.Wrapf(err, wrapMsg) }`, then on to `next` or `return nil`
CallSite(here, call, errs, wrapMsg, timeoutMsg, otherMsg, next, val) ==
    /\ opc = here
    /\ \E e \in errs :
         /\ Guarded(call, <<>>, e)
         /\ IF checkErr(ctxDone, e) # Nil
            THEN Return(Wrap(checkErr(ctxDone, e), wrapMsg), "none",
                        timeoutMsg, otherMsg)
            ELSE IF next = "return"
            THEN Return(Nil, val, timeoutMsg, otherMsg)
            ELSE Continue(next)
    /\ UNCHANGED <<loc, host, ft, hist>>
    /\ UNCHANGED cmdVars
    /\ UNCHANGED pathVars

\* the errors a call on the VM handle can return: a handle that refers to
\* no VM is only discovered by the call failing
VmErrs == IF host.exists /\ ~host.destroyed THEN SdkErrs ELSE {SdkError}

\* `task, err := submit(ctx); _, err = c.finishTask(ctx, task, err)`: the
\* submission and the first half of finishTask
TaskSubmit(here, call, arg, wrapMsg, timeoutMsg, otherMsg, waitLabel) ==
    /\ opc = here
    /\ \E e \in VmErrs :
         LET r == finishTaskSubmit(ctxDone, e)
         IN  /\ Guarded(call, arg, e)
             /\ ft' = [phase |-> IF r.returned THEN "returned" ELSE "waiting",
                       subErr |-> e, subDone |-> ctxDone, waited |-> FALSE,
                       waitErr |-> Nil, waitDone |-> FALSE,
                       ti |-> [state |-> "nil", result |-> "nil", msg |-> <<>>],
                       res |-> r.res, err |-> r.err]
             /\ IF r.returned
                THEN Return(Wrap(r.err, wrapMsg), "none", timeoutMsg, otherMsg)
                ELSE Continue(waitLabel)
    /\ UNCHANGED <<loc, host, hist>>
    /\ UNCHANGED cmdVars
    /\ UNCHANGED pathVars

\* what task.WaitForResult can return: the task ended (success or error) and
\* the wait saw it, or the wait itself failed (the task may or may not have
\* ended on the host)
WaitOutcomes ==
    {o \in [hostState : {"success", "error", "running"}, err : SdkErrs, msg : Msgs] :
        /\ o.hostState = "running" => o.err = SdkError
        /\ o.hostState # "error" => o.msg = <<>>}

\* a wait that failed is repeated once
TaskWait_RetryOnce(here, effect, result, wrapMsg, timeoutMsg, otherMsg, next) ==
    /\ opc = here
    /\ \E o \in WaitOutcomes :
         LET ti == [state |-> o.hostState, result |-> result, msg |-> o.msg]
             r  == finishTaskWait(ctxDone, o.err, ti)
         IN  /\ Guarded("Task.WaitForResult", <<>>, o.err)
             /\ host' = IF o.hostState = "success" THEN effect ELSE host
             /\ ft' = [ft EXCEPT !.phase = "done", !.waited = TRUE,
                                 !.waitErr = o.err, !.waitDone = ctxDone,
                                 !.ti = ti, !.res = r.res, !.err = r.err]
             /\ IF r.err # Nil /\ ~ft.waited
                THEN Continue(here)
                ELSE IF r.err # Nil
                THEN Return(Wrap(r.err, wrapMsg), "none", timeoutMsg, otherMsg)
                ELSE IF next = "return"
                THEN Return(Nil, r.res, timeoutMsg, otherMsg)
                ELSE Continue(next)
    /\ UNCHANGED <<loc, hist>>
    /\ UNCHANGED cmdVars
    /\ UNCHANGED pathVars

\* the second half of finishTask: the wait, its guard, the task's state;
\* `effect` is the host after the task has succeeded, `result` its payload
TaskWait(here, effect, result, wrapMsg, timeoutMsg, otherMsg, next) ==
    /\ opc = here
    /\ \E o \in WaitOutcomes :
         LET ti == [state |-> o.hostState, result |-> result, msg |-> o.msg]
             r  == finishTaskWait(ctxDone, o.err, ti)
         IN  /\ Guarded("Task.WaitForResult", <<>>, o.err)
             /\ host' = IF o.hostState = "success" THEN effect ELSE host
             /\ ft' = [ft EXCEPT !.phase = "done", !.waited = TRUE,
                                 !.waitErr = o.err, !.waitDone = ctxDone,
                                 !.ti = ti, !.res = r.res, !.err = r.err]
             /\ IF r.err # Nil
                THEN Return(Wrap(r.err, wrapMsg), "none", timeoutMsg, otherMsg)
                ELSE IF next = "return"
                THEN Return(Nil, r.res, timeoutMsg, otherMsg)
                ELSE Continue(next)
    /\ UNCHANGED <<loc, hist>>
    /\ UNCHANGED cmdVars
    /\ UNCHANGED pathVars

\* the timer of the open deadline scope fires
DeadlineElapses ==
    /\ ctxOpen > 0
    /\ ~ctxDone
    /\ ctxDone' = TRUE
    /\ UNCHANGED <<cli, cpc, opc, args, loc, vm, ctxOpen, ret, exitCode, calls,
                   host, ft, guard, opTimedOut, hist>>
    /\ UNCHANGED pathVars

----------------------------------------------------------------------------
\* NewClient

\* Client.Relocate is not among the sources: its messages follow the pattern
\* of the other operations
RelocateMsgs ==
    [timeout |-> "Timeout while attempting to relocate VM",
     other |-> "Got error while relocating a VM",
     wrap |-> "While relocating"]

\* the message of the `case *TimeoutExceededError:` branch of each operation
TimeoutMsg(op) ==
    CASE op = "NewClient" -> "Timeout while attempting to establish connection to vSphere"
      [] op = "FindVM" -> "Timeout while finding VM"
      [] op = "AssignNote" -> "Timeout while attempting to assign note to VM"
      [] op = "Destroy" -> "Timeout while attempting to destroy VM"
      [] op = "EnsureOff" -> "Timeout while attempting to power off VM"
      [] op = "EnsureOn" -> "Timeout while attempting to power on VM"
      [] op = "Suspend" -> "Timeout while attempting to suspend VM"
      [] op = "GetPowerState" -> "Timeout while getting power state of VM"
      [] op = "SnapshotCreate" -> "Timeout while attempting to snapshot VM"
      [] op = "Configure" -> "Timeout while attempting to reconfigure VM"
      [] op = "Clone" -> "Timeout while attempting to clone VM"
      [] op = "FindSnapshot" -> "Timeout while attempting to find snapshot for a VM"
      [] op = "SnapshotRemove" -> "Timeout while attempting to list snapshots for a VM"
      [] op = "SnapshotRemoveAll" ->
           "Timeout while attempting to remove all snapshots for a VM"
      [] op = "SnapshotRevert" ->
           "Timeout while attempting to revert to the most recent snapshot for a VM"
      [] op = "SnapshotRevertTo" ->
           "Timeout while attempting to revert to a specific snapshot for a VM"
      [] op = "SnapshotList" -> "Timeout while attempting to list snapshots for a VM"
      [] op = "Relocate" -> RelocateMsgs.timeout

\* the message of the `default:` branch of each operation
OtherMsg(op) ==
    CASE op = "NewClient" -> "Got error while attempting to establish connection to vSphere"
      [] op = "FindVM" -> "Got error while finding VM"
      [] op = "AssignNote" -> "Got error while assigning note to  VM"
      [] op = "Destroy" -> "Got error while destroy a VM"
      [] op = "EnsureOff" -> "Got error while power off VM"
      [] op = "EnsureOn" -> "Got error while power on VM"
      [] op = "Suspend" -> "Got error while attempting to suspend VM"
      [] op = "GetPowerState" -> "Got error while getting power state of VM"
      [] op = "SnapshotCreate" -> "Got error while snapshotting a VM"
      [] op = "Configure" -> "Got error while reconfiguring a VM"
      [] op = "Clone" -> "Got error while cloning a VM"
      [] op = "FindSnapshot" -> "Got error while finding snapshot for a VM"
      [] op = "SnapshotRemove" -> "Got error while listing snapshots for a VM"
      [] op = "SnapshotRemoveAll" -> "Got error while removing all snapshots for a VM"
      [] op = "SnapshotRevert" ->
           "Got error while reverting to the most recent snapshot for a VM"
      [] op = "SnapshotRevertTo" ->
           "Got error while reverting to a specific snapshot for a VM"
      [] op = "SnapshotList" -> "Got error while listing snapshots for a VM"
      [] op = "Relocate" -> RelocateMsgs.other

\* buildConnectionString
buildConnectionString(name, password, urlOk) ==
    IF name = "" \/ password = "" THEN Errorf("Missing username or password")
    ELSE IF ~urlOk THEN Errorf("Failed to form URL")
    ELSE Nil

\* NewClient up to the opening of its deadline scope
NewClientBegin ==
    /\ opc = "NewClient"
    /\ LET e == buildConnectionString(args.username, args.password, args.urlOk)
       IN  IF e # Nil
           THEN /\ opc' = "idle"
                /\ ret' = [err |-> e, val |-> "none"]
                /\ UNCHANGED <<ctxOpen, ctxDone, opTimedOut>>
           ELSE /\ opc' = "NewClient_connect"
                /\ OpenScope
                /\ UNCHANGED ret
    /\ UNCHANGED <<loc, calls, host, ft, guard, hist>>
    /\ UNCHANGED cmdVars
    /\ UNCHANGED pathVars

NewClientConnect ==
    CallSite("NewClient_connect", "govmomi.NewClient", SdkErrs,
             "Failed to connect to vSphere",
             TimeoutMsg("NewClient"), OtherMsg("NewClient"), "NewClient_datacenter", "none")

NewClientDatacenter ==
    CallSite("NewClient_datacenter", "Finder.Datacenter", SdkErrs,
             "Failed to find data center",
             TimeoutMsg("NewClient"), OtherMsg("NewClient"), "NewClient_datastore", "none")

NewClientDatastore ==
    CallSite("NewClient_datastore", "Finder.Datastore", SdkErrs,
             "Failed to find data store",
             TimeoutMsg("NewClient"), OtherMsg("NewClient"), "return", "client")

----------------------------------------------------------------------------
\* cobra and main

\* the command calls a client operation
CallOp(op, a, next) ==
    /\ opc' = op
    /\ args' = a
    /\ cpc' = next

\* the command is at `label` and the operation it called has returned
At(label) == cpc = label /\ opc = "idle"

\* an error of terminal.ReadPassword
ReadPasswordError == MkErr("readPasswordError", TRUE, "read", NoText, Nil)

\* cobra's ValidateArgs, which precedes every hook: the command's Args rejects
\* the positional arguments and Execute returns the error
ValidateArgs ==
    /\ At("preRunE")
    /\ cli.cmd.params \notin Args(cli.cmd.verb).min..Args(cli.cmd.verb).max
    /\ cpc' = "main"
    /\ ret' = [err |-> Errorf("accepts between "
                              \o ToString(Args(cli.cmd.verb).min) \o " and "
                              \o ToString(Args(cli.cmd.verb).max)
                              \o " arg(s), received " \o ToString(cli.cmd.params)),
               val |-> "none"]
    /\ UNCHANGED <<opc, args, vm, hist>>
    /\ UNCHANGED <<cli, exitCode, loc, ctxOpen, ctxDone, calls, host, ft, guard,
                   opTimedOut>>
    /\ UNCHANGED pathVars

\* preRunE up to its call of NewClient
preRunE ==
    /\ At("preRunE")
    /\ cli.cmd.params \in Args(cli.cmd.verb).min..Args(cli.cmd.verb).max
    /\ IF cli.cred.password = "" /\ cli.cred.prompt
       THEN \E typed \in {"error", "", "p"} :
              IF typed = "error"
              THEN /\ cpc' = "main"
                   /\ ret' = [err |-> ReadPasswordError, val |-> "none"]
                   /\ UNCHANGED <<opc, args>>
              ELSE /\ CallOp("NewClient",
                             [op |-> "NewClient", username |-> cli.cred.username,
                              password |-> typed, urlOk |-> cli.cred.urlOk],
                             "preRunE_NewClient")
                   /\ UNCHANGED ret
       ELSE /\ CallOp("NewClient",
                      [op |-> "NewClient", username |-> cli.cred.username,
                       password |-> cli.cred.password, urlOk |-> cli.cred.urlOk],
                      "preRunE_NewClient")
            /\ UNCHANGED ret
    /\ UNCHANGED <<cli, vm, exitCode, loc, ctxOpen, ctxDone, calls, host, ft,
                   guard, opTimedOut, hist>>
    /\ UNCHANGED pathVars

\* preRunE hands NewClient's own error on instead of a ConnectionError
preRunEReturn_PassThrough ==
    /\ cpc = "preRunE_NewClient" /\ opc = "idle"
    /\ IF ret.err # Nil
       THEN /\ cpc' = "main"
            /\ hist' = [hist EXCEPT !.newClientFailed = TRUE]
            /\ UNCHANGED ret
       ELSE /\ cpc' = "RunE"
            /\ UNCHANGED <<ret, hist>>
    /\ UNCHANGED <<cli, opc, args, vm, exitCode, loc, ctxOpen, ctxDone, calls,
                   host, ft, guard, opTimedOut>>
    /\ UNCHANGED pathVars

\* preRunE after NewClient; cobra runs RunE only if PreRunE returned nil
preRunEReturn ==
    /\ At("preRunE_NewClient")
    /\ IF ret.err # Nil
       THEN /\ cpc' = "main"
            /\ ret' = [err |-> ConnectionErrorPtr, val |-> "none"]
            /\ hist' = [hist EXCEPT !.newClientFailed = TRUE]
       ELSE /\ cpc' = "RunE"
            /\ UNCHANGED <<ret, hist>>
    /\ UNCHANGED <<cli, opc, args, vm, exitCode, loc, ctxOpen, ctxDone, calls,
                   host, ft, guard, opTimedOut>>
    /\ UNCHANGED pathVars

\* RunE returns e to cobra, and rootCmd.Execute returns it to main
RunEReturns(e) ==
    /\ cpc' = "main"
    /\ ret' = [err |-> e, val |-> "none"]

\* the test command's RunE
testRunE ==
    /\ At("RunE")
    /\ cli.cmd.verb = "test"
    /\ RunEReturns(Nil)
    /\ hist' = [hist EXCEPT !.bodyRan = TRUE]
    /\ UNCHANGED <<cli, opc, args, vm, exitCode, loc, ctxOpen, ctxDone, calls,
                   host, ft, guard, opTimedOut>>
    /\ UNCHANGED pathVars

\* main: os.Exit with the code of the error Execute returned
main ==
    /\ At("main")
    /\ exitCode = "running"
    /\ exitCode' = mainExit(ret.err)
    /\ cpc' = "exited"
    /\ UNCHANGED <<cli, opc, args, vm, ret, loc, ctxOpen, ctxDone, calls,
                   host, ft, guard, opTimedOut, hist>>
    /\ UNCHANGED pathVars

----------------------------------------------------------------------------
\* FindVM

\* the *VirtualMachine FindVM returns
FoundVM(ref, mo, fetches) == [ref |-> ref, mo |-> mo, fetches |-> fetches]

\* the property snapshot pc.Retrieve fills in
RetrievedMO(props) ==
    [props |-> props,
     annotation |-> IF "config.annotation" \in props THEN host.annotation ELSE "unset",
     network |-> IF "network" \in props THEN host.networks ELSE "unset",
     snapshot |-> IF "snapshot" \in props THEN host.snapshots ELSE "unset",
     summary |-> IF "summary" \in props
                 THEN [cpus |-> host.cpus, memory |-> host.memory] ELSE "unset"]

\* the inventory is searched even when the path is a reference
FindVMBegin_AlwaysLookup ==
    /\ opc = "FindVM"
    /\ OpenScope
    /\ loc' = [op |-> "FindVM", ref |-> "none"]
    /\ opc' = "FindVM_lookup"
    /\ hist' = [hist EXCEPT !.entry = Len(calls)]
    /\ UNCHANGED <<ret, calls, host, ft, guard>>
    /\ UNCHANGED cmdVars
    /\ UNCHANGED pathVars

\* FindVM up to its first remote call
FindVMBegin ==
    /\ opc = "FindVM"
    /\ OpenScope
    /\ IF args.pathIsRef
       THEN /\ loc' = [op |-> "FindVM", ref |-> args.path]
            /\ opc' = "FindVM_properties"
       ELSE /\ loc' = [op |-> "FindVM", ref |-> "none"]
            /\ opc' = "FindVM_lookup"
    /\ hist' = [hist EXCEPT !.entry = Len(calls)]
    /\ UNCHANGED <<ret, calls, host, ft, guard>>
    /\ UNCHANGED cmdVars
    /\ UNCHANGED pathVars

\* searchIndex.FindByInventoryPath(ctx, makeInventoryPath(path))
FindVMLookup ==
    /\ opc = "FindVM_lookup"
    /\ \E e \in SdkErrs :
         LET g == checkErr(ctxDone, e)
             inventoryRef == IF e = Nil /\ host.exists /\ ~host.destroyed
                             THEN VmRef ELSE "nil"
         IN  /\ Guarded("SearchIndex.FindByInventoryPath",
                        makeInventoryPath(pDC, TargetPath), e)
             /\ IF g # Nil
                THEN /\ Return(Wrap(g, "Failed to find VM by inventory path"),
                               "none", TimeoutMsg("FindVM"), OtherMsg("FindVM"))
                     /\ UNCHANGED <<loc, hist>>
                ELSE IF inventoryRef = "nil"
                THEN /\ Return(Errorf("Failed to find VM"),
                               "none", TimeoutMsg("FindVM"), OtherMsg("FindVM"))
                     /\ hist' = [hist EXCEPT !.lookupEmpty = TRUE]
                     /\ UNCHANGED loc
                ELSE /\ Continue("FindVM_properties")
                     /\ loc' = [loc EXCEPT !.ref = inventoryRef]
                     /\ UNCHANGED hist
    /\ UNCHANGED <<host, ft>>
    /\ UNCHANGED cmdVars
    /\ UNCHANGED pathVars

\* the properties are retrieved even when none is asked for
FindVMProperties_AlwaysRetrieve ==
    /\ opc = "FindVM_properties"
    /\ \E e \in VmErrs :
         LET g == checkErr(ctxDone, e)
         IN  /\ Guarded("PropertyCollector.Retrieve", <<loc.ref>>, e)
             /\ IF g # Nil
                THEN Return(Wrap(g, "While getting properties"), "none",
                            TimeoutMsg("FindVM"), OtherMsg("FindVM"))
                ELSE Return(Nil, FoundVM(loc.ref, RetrievedMO(args.props), 1),
                            TimeoutMsg("FindVM"), OtherMsg("FindVM"))
    /\ UNCHANGED <<loc, host, ft, hist>>
    /\ UNCHANGED cmdVars
    /\ UNCHANGED pathVars

\* `if len(properties) != 0 { pc.Retrieve(...) }` and the return
FindVMProperties ==
    /\ opc = "FindVM_properties"
    /\ IF args.props = {}
       THEN /\ Return(Nil, FoundVM(loc.ref, NilMO, 0), TimeoutMsg("FindVM"), OtherMsg("FindVM"))
            /\ UNCHANGED <<calls, guard, opTimedOut>>
       ELSE \E e \in VmErrs :
              LET g == checkErr(ctxDone, e)
              IN  /\ Guarded("PropertyCollector.Retrieve", <<loc.ref>>, e)
                  /\ IF g # Nil
                     THEN Return(Wrap(g, "While getting properties"), "none",
                                 TimeoutMsg("FindVM"), OtherMsg("FindVM"))
                     ELSE Return(Nil, FoundVM(loc.ref, RetrievedMO(args.props), 1),
                                 TimeoutMsg("FindVM"), OtherMsg("FindVM"))
    /\ UNCHANGED <<loc, host, ft, hist>>
    /\ UNCHANGED cmdVars
    /\ UNCHANGED pathVars

----------------------------------------------------------------------------
\* AssignNote

\* the existing annotation is joined on even when it is empty
NoteToSubmit_AlwaysJoin(mo, note, overwrite) ==
    IF ~overwrite THEN mo.annotation \o <<"\n", "\n">> \o note ELSE note

\* fmt.Sprintf("%s\n\n%s", originalNote, note) unless overwriting or empty
NoteToSubmit(mo, note, overwrite) ==
    IF ~overwrite /\ Len(mo.annotation) # 0
    THEN mo.annotation \o <<"\n", "\n">> \o note
    ELSE note

----------------------------------------------------------------------------
\* Destroy

\* a VM that is not powered on may be destroyed
destroyAllowed_NotPoweredOn(powerState) == powerState # "poweredOn"

\* `powerState != types.VirtualMachinePowerStatePoweredOff` is the refusal
destroyAllowed(powerState) == powerState = "poweredOff"

\* vm.VM.PowerState(ctx) and the precondition on it; a failed call leaves
\* powerState at its zero value
DestroyPowerState ==
    /\ opc = "Destroy_powerState"
    /\ \E e \in VmErrs :
         LET g == checkErr(ctxDone, e)
             powerState == IF e = Nil THEN host.power ELSE ""
         IN  /\ Guarded("VM.PowerState", <<>>, e)
             /\ loc' = [op |-> "Destroy", powerState |-> powerState, err |-> g]
             /\ IF g # Nil
                THEN Return(Wrap(g, "While getting getting power state"), "none",
                            TimeoutMsg("Destroy"), OtherMsg("Destroy"))
                ELSE IF ~destroyAllowed(powerState)
                THEN Return(Errorf("Cannot destroy a Vm that is running"), "none",
                            TimeoutMsg("Destroy"), OtherMsg("Destroy"))
                ELSE Continue("Destroy_submit")
    /\ UNCHANGED <<host, ft, hist>>
    /\ UNCHANGED cmdVars
    /\ UNCHANGED pathVars

----------------------------------------------------------------------------
\* EnsureOn: the wait for an IP address after the power-on task

\* the result of the wait for an IP address is dropped
EnsureOnWaitForIP_IgnoreError ==
    /\ opc = "EnsureOn_waitForIP"
    /\ \E e \in VmErrs :
         /\ Guarded("VM.WaitForIP", <<>>, e)
         /\ Return(Nil, "nil", TimeoutMsg("EnsureOn"), OtherMsg("EnsureOn"))
    /\ UNCHANGED <<loc, host, ft, hist>>
    /\ UNCHANGED cmdVars
    /\ UNCHANGED pathVars

\* `_, err = vm.VM.WaitForIP(ctx)` and its guard
EnsureOnWaitForIP ==
    CallSite("EnsureOn_waitForIP", "VM.WaitForIP", VmErrs,
             "While waiting for IP address",
             TimeoutMsg("EnsureOn"), OtherMsg("EnsureOn"), "return", "nil")

----------------------------------------------------------------------------
\* GetPowerState

\* the switch from types.VirtualMachinePowerState to vcon.PowerState
ToPowerState(s) ==
    CASE s = "poweredOff" -> PoweredOff
      [] s = "poweredOn"  -> PoweredOn
      [] s = "suspended"  -> Suspended
      [] OTHER            -> Unknown

\* vm.VM.PowerState(ctx); ps stays Unknown when the call or the guard fails
GetPowerStatePowerState ==
    /\ opc = "GetPowerState_powerState"
    /\ \E e \in VmErrs :
         LET g  == checkErr(ctxDone, e)
             be == Wrap(g, "While getting getting power state")
         IN  /\ Guarded("VM.PowerState", <<>>, e)
             /\ opc' = "idle"
             /\ ctxOpen' = ctxOpen - 1
             /\ ret' = [err |-> Classify(be, TimeoutMsg("GetPowerState"), OtherMsg("GetPowerState")),
                        val |-> IF g # Nil THEN Unknown ELSE ToPowerState(host.power)]
             /\ UNCHANGED ctxDone
    /\ UNCHANGED <<loc, host, ft, hist>>
    /\ UNCHANGED cmdVars
    /\ UNCHANGED pathVars

----------------------------------------------------------------------------
\* The deadline scope and the task of the single-task operations

\* the first call site of each operation whose body starts with
\* `ctx, cancelFn := context.WithTimeout(...); defer cancelFn()`
FirstSite(op) ==
    CASE op = "AssignNote"     -> "AssignNote_submit"
      [] op = "Destroy"        -> "Destroy_powerState"
      [] op = "EnsureOff"      -> "EnsureOff_submit"
      [] op = "EnsureOn"       -> "EnsureOn_submit"
      [] op = "Suspend"        -> "Suspend_submit"
      [] op = "GetPowerState"  -> "GetPowerState_powerState"
      [] op = "SnapshotCreate" -> "SnapshotCreate_submit"
      [] op = "ReportVM"       -> "ReportVM_powerState"
      [] op = "Clone"          -> "Clone_resourcePool"
      [] op = "SnapshotRemove"    -> "SnapshotRemove_request"
      [] op = "SnapshotRemoveAll" -> "SnapshotRemoveAll_submit"
      [] op = "SnapshotRevert"    -> "SnapshotRevert_submit"
      [] op = "SnapshotRevertTo"  -> "SnapshotRevertTo_request"
      [] op = "SnapshotList"      -> "SnapshotList_body"
      [] op = "Relocate"          -> "Relocate_submit"
      [] OTHER                 -> "none"

\* the operation opens its deadline scope
Begin ==
    /\ FirstSite(opc) # "none"
    /\ OpBegin(opc, FirstSite(opc))

\* Client.Relocate is not among the sources; the specification has it open
\* one deadline scope, translate the destination to an inventory path and
\* submit one combined rename/move request, whose task it waits for
RelocateTask ==
    [submit |-> "Relocate_submit", wait |-> "Relocate_wait",
     call |-> "VM.Relocate",
     arg |-> <<args.name>> \o
             (IF args.destination = <<>> THEN <<>>
              ELSE makeInventoryPath(MainDatacenter, args.destination)),
     wrap |-> RelocateMsgs.wrap,
     effect |-> host, result |-> "nil", next |-> "return"]

\* `task, err := vm.VM.X(ctx, ...); _, err = c.finishTask(ctx, task, err);
\* if err != nil { return errors.Wrapf(err, wrap) }` of each operation: the
\* call and its argument, the wrap message, the host once the task has
\* succeeded, the task's result and what follows the task
TaskOf(op) ==
    CASE op = "AssignNote" ->
           [submit |-> "AssignNote_submit", wait |-> "AssignNote_wait",
            call |-> "VM.Reconfigure",
            arg |-> NoteToSubmit(args.vm.mo, args.note, args.overwrite),
            wrap |-> "Error while assigning note",
            effect |-> [host EXCEPT !.annotation =
                           NoteToSubmit(args.vm.mo, args.note, args.overwrite)],
            result |-> "nil", next |-> "return"]
      [] op = "Destroy" ->
           [submit |-> "Destroy_submit", wait |-> "Destroy_wait",
            call |-> "VM.Destroy", arg |-> <<>>, wrap |-> "While destroying VM",
            effect |-> [host EXCEPT !.destroyed = TRUE],
            result |-> "nil", next |-> "return"]
      [] op = "EnsureOff" ->
           [submit |-> "EnsureOff_submit", wait |-> "EnsureOff_wait",
            call |-> "VM.PowerOff", arg |-> <<>>, wrap |-> "While powering off",
            effect |-> [host EXCEPT !.power = "poweredOff"],
            result |-> "nil", next |-> "return"]
      [] op = "EnsureOn" ->
           [submit |-> "EnsureOn_submit", wait |-> "EnsureOn_wait",
            call |-> "VM.PowerOn", arg |-> <<>>, wrap |-> "While powering on",
            effect |-> [host EXCEPT !.power = "poweredOn"],
            result |-> "nil", next |-> "EnsureOn_waitForIP"]
      [] op = "Suspend" ->
           [submit |-> "Suspend_submit", wait |-> "Suspend_wait",
            call |-> "VM.Suspend", arg |-> <<>>, wrap |-> "While suspending",
            effect |-> [host EXCEPT !.power = "suspended"],
            result |-> "nil", next |-> "return"]
      [] op = "Clone" ->
           [submit |-> "Clone_submit", wait |-> "Clone_wait",
            call |-> "VM.Clone", arg |-> <<>>, wrap |-> "Error while cloning",
            effect |-> [host EXCEPT !.power = "poweredOff"],
            result |-> NewVmRef, next |-> "return"]
      [] op = "SnapshotCreate" ->
           [submit |-> "SnapshotCreate_submit", wait |-> "SnapshotCreate_wait",
            call |-> "VM.CreateSnapshot", arg |-> <<>>,
            wrap |-> "While snapshotting VM",
            effect |-> [host EXCEPT !.snapshots = 1],
            result |-> "snapshot-1", next |-> "return"]
      [] op = "SnapshotRemoveAll" ->
           [submit |-> "SnapshotRemoveAll_submit", wait |-> "SnapshotRemoveAll_wait",
            call |-> "VM.RemoveAllSnapshot", arg |-> <<>>,
            wrap |-> "While removing all snapshots",
            effect |-> [host EXCEPT !.snapshots = 0],
            result |-> "nil", next |-> "return"]
      [] op = "SnapshotRevert" ->
           [submit |-> "SnapshotRevert_submit", wait |-> "SnapshotRevert_wait",
            call |-> "VM.RevertToCurrentSnapshot", arg |-> <<>>,
            wrap |-> "While reverting to the most recent snapshot",
            effect |-> [host EXCEPT !.power = "poweredOff"],
            result |-> "nil", next |-> "return"]
      [] op = "SnapshotRemove" ->
           [submit |-> "none", wait |-> "SnapshotRemove_wait",
            wrap |-> "While waiting for snapshot removal",
            effect |-> [host EXCEPT !.snapshots = 0],
            result |-> "nil", next |-> "return"]
      [] op = "SnapshotRevertTo" ->
           [submit |-> "none", wait |-> "SnapshotRevertTo_wait",
            wrap |-> "While reverting to the most recent snapshot",
            effect |-> [host EXCEPT !.power = "poweredOff"],
            result |-> "nil", next |-> "return"]
      [] op = "Relocate" -> RelocateTask
      [] OTHER -> [submit |-> "none", wait |-> "none"]

\* the task is submitted
SubmitTask ==
    LET t == TaskOf(args.op)
    IN  TaskSubmit(t.submit, t.call, t.arg, t.wrap,
                   TimeoutMsg(args.op), OtherMsg(args.op), t.wait)

\* the task is waited for
WaitForTask ==
    LET t == TaskOf(args.op)
    IN  TaskWait(t.wait, t.effect, t.result, t.wrap,
                 TimeoutMsg(args.op), OtherMsg(args.op), t.next)

\* SnapshotList: the scope's context is discarded (`_, cancelFn :=`), the
\* snapshot property is read and nil is returned whether or not it is set
SnapshotListBody ==
    /\ opc = "SnapshotList_body"
    /\ Return(Nil, "nil", TimeoutMsg("SnapshotList"), OtherMsg("SnapshotList"))
    /\ UNCHANGED <<loc, calls, host, ft, hist, guard, opTimedOut>>
    /\ UNCHANGED cmdVars
    /\ UNCHANGED pathVars

----------------------------------------------------------------------------
\* FindSnapshot, SnapshotRemove, SnapshotRevertTo: a guarded request, which in
\* the last two yields the task that finishTask is then given with a nil error

\* FindSnapshot up to its call: a reference is converted without a call and
\* without a deadline scope, a name is looked up inside a scope
FindSnapshotBegin ==
    /\ opc = "FindSnapshot"
    /\ IF args.byRef
       THEN /\ opc' = "idle"
            /\ ret' = [err |-> Nil, val |-> args.name]
            /\ UNCHANGED <<ctxOpen, ctxDone, opTimedOut>>
       ELSE /\ opc' = "FindSnapshot_find"
            /\ OpenScope
            /\ UNCHANGED ret
    /\ hist' = [hist EXCEPT !.entry = Len(calls)]
    /\ UNCHANGED <<loc, calls, host, ft, guard>>
    /\ UNCHANGED cmdVars
    /\ UNCHANGED pathVars

\* `x, err := request(ctx, ...)` followed by checkErr: the call, whether its
\* error is wrapped on return, and what follows
RequestOf(op) ==
    CASE op = "FindSnapshot" ->
           [site |-> "FindSnapshot_find", call |-> "VM.FindSnapshot",
            arg |-> <<args.name>>, wrapped |-> TRUE,
            wrap |-> "While finding snapshot", next |-> "return",
            val |-> "snapshot-1"]
      [] op = "SnapshotRemove" ->
           [site |-> "SnapshotRemove_request", call |-> "methods.RemoveSnapshot_Task",
            arg |-> <<args.moRef>>, wrapped |-> TRUE,
            wrap |-> "While removing snapshot", next |-> "SnapshotRemove_check",
            val |-> "none"]
      [] op = "SnapshotRevertTo" ->
           [site |-> "SnapshotRevertTo_request",
            call |-> "methods.RevertToSnapshot_Task",
            arg |-> <<args.moRef>>, wrapped |-> FALSE,
            wrap |-> "", next |-> "SnapshotRevertTo_check", val |-> "none"]
      [] OTHER -> [site |-> "none", next |-> "none"]

\* the request is issued and guarded
SubmitRequest ==
    LET q == RequestOf(args.op)
    IN  /\ opc = q.site
        /\ \E e \in VmErrs :
             LET g == checkErr(ctxDone, e)
             IN  /\ Guarded(q.call, q.arg, e)
                 /\ IF g # Nil
                    THEN Return(IF q.wrapped THEN Wrap(g, q.wrap) ELSE g, "none",
                                TimeoutMsg(args.op), OtherMsg(args.op))
                    ELSE IF q.next = "return"
                    THEN Return(Nil, q.val, TimeoutMsg(args.op), OtherMsg(args.op))
                    ELSE Continue(q.next)
        /\ UNCHANGED <<loc, host, ft, hist>>
        /\ UNCHANGED cmdVars
        /\ UNCHANGED pathVars

\* `c.finishTask(ctx, task, nil)`, first half: the guard is evaluated on a
\* nil error, no call is issued
CheckRequest ==
    LET q == RequestOf(args.op)
        t == TaskOf(args.op)
        r == finishTaskSubmit(ctxDone, Nil)
    IN  /\ q.next \notin {"none", "return"}
        /\ opc = q.next
        /\ guard' = [evaluated |-> TRUE, done |-> ctxDone, in |-> Nil,
                     out |-> checkErr(ctxDone, Nil)]
        /\ opTimedOut' = (opTimedOut \/ IsTimeoutValue(checkErr(ctxDone, Nil)))
        /\ ft' = [phase |-> IF r.returned THEN "returned" ELSE "waiting",
                  subErr |-> Nil, subDone |-> ctxDone, waited |-> FALSE,
                  waitErr |-> Nil, waitDone |-> FALSE,
                  ti |-> [state |-> "nil", result |-> "nil", msg |-> <<>>],
                  res |-> r.res, err |-> r.err]
        /\ IF r.returned
           THEN Return(Wrap(r.err, t.wrap), "none",
                       TimeoutMsg(args.op), OtherMsg(args.op))
           ELSE Continue(t.wait)
        /\ UNCHANGED <<loc, calls, host, hist>>
        /\ UNCHANGED cmdVars
        /\ UNCHANGED pathVars

----------------------------------------------------------------------------
\* Clone: the two lookups before the clone task; from the task's success on,
\* the VM the host record stands for is the new one, which is powered off

CloneResourcePool ==
    CallSite("Clone_resourcePool", "Finder.ResourcePoolOrDefault", SdkErrs,
             "While getting resource pool named",
             TimeoutMsg("Clone"), OtherMsg("Clone"), "Clone_folder", "none")

\* the folder lookup's outcome is not looked at: the clone task is submitted
CloneFolder_Unchecked ==
    /\ opc = "Clone_folder"
    /\ \E e \in SdkErrs :
         /\ Guarded("Finder.Folder", <<>>, e)
         /\ Continue("Clone_submit")
    /\ UNCHANGED <<loc, host, ft, hist>>
    /\ UNCHANGED cmdVars
    /\ UNCHANGED pathVars

CloneFolder ==
    CallSite("Clone_folder", "Finder.Folder", SdkErrs,
             "While getting folder named",
             TimeoutMsg("Clone"), OtherMsg("Clone"), "Clone_submit", "none")

----------------------------------------------------------------------------
\* ReportVM

\* &VirtualMachineInfo{Configuration: &VirtualMachineConfiguration{}} with
\* d.Ref set: IPs is nil, the configuration's pointers are nil
VirtualMachineInfo(ref) ==
    [op |-> "ReportVM", ref |-> ref, isRunning |-> FALSE, ips |-> "nil",
     path |-> <<>>, cpus |-> <<>>, memory |-> <<>>, network |-> "nil"]

\* a remote call whose outcome is examined by `select { case <-ctx.Done(): ...
\* default: if err != nil ... }` and not by checkErr
Unguarded(call, arg, e) ==
    /\ calls' = Append(calls, [call |-> call, arg |-> arg, err |-> e])
    /\ UNCHANGED <<guard, opTimedOut>>

\* an info that lacks the network name is returned as a failure
ReportVMReturn_Incomplete(d) ==
    /\ opc' = "idle"
    /\ ctxOpen' = ctxOpen - 1
    /\ ret' = [err |-> IF d.network = "nil" THEN Errorf("incomplete") ELSE Nil,
               val |-> d]
    /\ UNCHANGED ctxDone

\* `return` inside the body, `defer cancelFn()`, then `return d`
ReportVMReturn(d) ==
    /\ opc' = "idle"
    /\ ctxOpen' = ctxOpen - 1
    /\ ret' = [err |-> Nil, val |-> d]
    /\ UNCHANGED ctxDone

\* a call site of ReportVM: d is what has been collected, dOk what is
\* collected once this call has returned within the deadline without error
ReportVMSite(here, call, arg, d, dOk, next) ==
    /\ opc = here
    /\ \E e \in VmErrs :
         /\ Unguarded(call, arg, e)
         /\ IF ctxDone \/ e # Nil
            THEN /\ ReportVMReturn(d)
                 /\ loc' = d
            ELSE /\ Continue(next)
                 /\ loc' = dOk
    /\ UNCHANGED <<host, ft, hist>>
    /\ UNCHANGED cmdVars
    /\ UNCHANGED pathVars

\* powerState, err := vm.VM.PowerState(ctx); d.IsRunning; d.IPs = []string{}
ReportVMPowerState ==
    LET d == VirtualMachineInfo(args.vm.ref)
    IN  ReportVMSite("ReportVM_powerState", "VM.PowerState", <<>>, d,
                     [d EXCEPT !.isRunning = host.power # "poweredOff",
                               !.ips = "empty"],
                     IF host.power # "poweredOff"
                     THEN "ReportVM_waitForNetIP" ELSE "ReportVM_element")

\* macs, err := vm.VM.WaitForNetIP(ctx, true), only `if d.IsRunning`
ReportVMWaitForNetIP ==
    ReportVMSite("ReportVM_waitForNetIP", "VM.WaitForNetIP", <<>>, loc,
                 [loc EXCEPT !.ips = "addresses"], "ReportVM_element")

\* every handle is given a new snapshot
needsSnapshot_Always(handle) == TRUE

\* `if vm.MO == nil`
needsSnapshot(handle) == handle.mo = NilMO

\* elements, err := c.Finder.Element(ctx, vm.VM.Reference()); d.Path
ReportVMElement ==
    ReportVMSite("ReportVM_element", "Finder.Element", <<>>, loc,
                 [loc EXCEPT !.path = makePath(pDC, makeInventoryPath(pDC, TargetPath))],
                 IF needsSnapshot(args.vm)
                 THEN "ReportVM_retrieve" ELSE "ReportVM_network")

\* err = pc.Retrieve(ctx, refs, []string{"network", "summary"}, &res);
\* vm.MO = &res[0]: the caller's handle is the one that is filled in
ReportVMRetrieve ==
    /\ opc = "ReportVM_retrieve"
    /\ \E e \in VmErrs :
         LET fetched == [args.vm EXCEPT !.mo = RetrievedMO({"network", "summary"}),
                                        !.fetches = @ + 1]
         IN  /\ Unguarded("PropertyCollector.Retrieve", <<args.vm.ref>>, e)
             /\ IF ctxDone \/ e # Nil
                THEN /\ ReportVMReturn(loc)
                     /\ UNCHANGED <<vm, args>>
                ELSE /\ Continue("ReportVM_network")
                     /\ vm' = fetched
                     /\ args' = [args EXCEPT !.vm = fetched]
    /\ UNCHANGED <<loc, host, ft, hist, cli, cpc, exitCode>>
    /\ UNCHANGED pathVars

\* vm.MO.Summary.Config of a snapshot: zero when "summary" was not retrieved
SummaryConfig(mo) ==
    IF "summary" \in mo.props THEN mo.summary ELSE [cpus |-> 0, memory |-> 0]

\* d.Configuration.CPUs, .Memory; err = pc.Retrieve(ctx, vm.MO.Network,
\* []string{"name"}, &dest); err = c.checkErr(ctx, err); d.Configuration.Network
ReportVMNetwork ==
    /\ opc = "ReportVM_network"
    /\ \E e \in VmErrs :
         LET d == [loc EXCEPT !.cpus = <<SummaryConfig(args.vm.mo).cpus>>,
                              !.memory = <<SummaryConfig(args.vm.mo).memory>>]
             dOk == [d EXCEPT !.network = args.vm.mo.network[1]]
         IN  /\ Guarded("PropertyCollector.Retrieve", <<"name">>, e)
             /\ loc' = IF checkErr(ctxDone, e) # Nil THEN d ELSE dOk
             /\ ReportVMReturn(IF checkErr(ctxDone, e) # Nil THEN d ELSE dOk)
    /\ UNCHANGED <<host, ft, hist>>
    /\ UNCHANGED cmdVars
    /\ UNCHANGED pathVars

----------------------------------------------------------------------------
\* Configure

\* the reconfigure task is submitted whatever the configuration holds
reconfigure_Always(vmc) == TRUE

\* `reconfigure`: a CPU count or a memory size is present
reconfigure(vmc) == vmc.cpus # <<>> \/ vmc.memory # <<>>

\* the host after the reconfigure task for cspec has succeeded
Reconfigured(h, vmc) ==
    [h EXCEPT !.cpus   = IF vmc.cpus # <<>> THEN vmc.cpus[1] ELSE @,
              !.memory = IF vmc.memory # <<>> THEN vmc.memory[1] ELSE @]

\* every device is selected, whatever it is attached to
SelectByBackingInfo_All(devices, name) ==
    [i \in 1..Len(devices) |-> i]

\* devices.SelectByBackingInfo(backing): the positions, in list order, of the
\* adapters whose backing names the network `name`
SelectByBackingInfo(devices, name) ==
    SelectSeq([i \in 1..Len(devices) |-> i],
              LAMBDA i : devices[i].kind = "adapter" /\ devices[i].net = name)

\* the early exit is never taken
nothingToChange_Never(name, requested) == FALSE

\* `network.Name == *vmc.Network`: there is nothing to change
nothingToChange(name, requested) == name = requested

\* the host after EditDevice has put the device at position i on network n
Edited(h, i, n) == [h EXCEPT !.devices[i].net = n]

\* a checkErr whose argument does not come straight from a remote call
Rechecked(e) ==
    /\ guard' = [evaluated |-> TRUE, done |-> ctxDone, in |-> e,
                 out |-> checkErr(ctxDone, e)]
    /\ opTimedOut' = (opTimedOut \/ IsTimeoutValue(checkErr(ctxDone, e)))
    /\ UNCHANGED calls

\* the body returns e as it is (no call-site wrap)
ConfigureReturn(e) == Return(e, "nil", TimeoutMsg("Configure"), OtherMsg("Configure"))

\* the locals of Configure; `entry` is the number of remote calls issued
\* before Configure was entered and `before` the host at that moment
ConfigureLocals ==
    [op |-> "Configure", entry |-> Len(calls), before |-> host, err |-> Nil,
     devices |-> <<>>,
     network |-> "none", matchingDevices |-> <<>>, next |-> 1,
     reconfigured |-> "no", lookup |-> "none", edits |-> <<>>]

\* Configure up to its first remote call; with nothing to do the body
\* returns nil at once
ConfigureBegin ==
    /\ opc = "Configure"
    /\ loc' = ConfigureLocals
    /\ ctxDone' = FALSE
    /\ opTimedOut' = FALSE
    /\ IF reconfigure(args.vmc)
       THEN /\ opc' = "Configure_reconfigure"
            /\ ctxOpen' = ctxOpen + 1
            /\ UNCHANGED ret
       ELSE IF args.vmc.network # "nil"
       THEN /\ opc' = "Configure_device"
            /\ ctxOpen' = ctxOpen + 1
            /\ UNCHANGED ret
       ELSE /\ opc' = "idle"
            /\ ret' = [err |-> Nil, val |-> "nil"]
            /\ UNCHANGED ctxOpen
    /\ hist' = [hist EXCEPT !.entry = Len(calls)]
    /\ UNCHANGED <<calls, host, ft, guard>>
    /\ UNCHANGED cmdVars
    /\ UNCHANGED pathVars

\* `task, err := vm.VM.Reconfigure(ctx, cspec)` and the first half of finishTask
ConfigureReconfigureSubmit ==
    /\ opc = "Configure_reconfigure"
    /\ \E e \in VmErrs :
         LET r == finishTaskSubmit(ctxDone, e)
         IN  /\ Guarded("VM.Reconfigure", args.vmc, e)
             /\ ft' = [phase |-> IF r.returned THEN "returned" ELSE "waiting",
                       subErr |-> e, subDone |-> ctxDone, waited |-> FALSE,
                       waitErr |-> Nil, waitDone |-> FALSE,
                       ti |-> [state |-> "nil", result |-> "nil", msg |-> <<>>],
                       res |-> r.res, err |-> r.err]
             /\ loc' = [loc EXCEPT !.err = r.err,
                                   !.reconfigured = IF r.returned THEN "failed" ELSE "pending"]
             /\ Continue(IF r.returned THEN "Configure_recheck" ELSE "Configure_wait")
    /\ UNCHANGED <<host, hist>>
    /\ UNCHANGED cmdVars
    /\ UNCHANGED pathVars

\* the second half of finishTask for the reconfigure task
ConfigureReconfigureWait ==
    /\ opc = "Configure_wait"
    /\ \E o \in WaitOutcomes :
         LET ti == [state |-> o.hostState, result |-> "nil", msg |-> o.msg]
             r  == finishTaskWait(ctxDone, o.err, ti)
         IN  /\ Guarded("Task.WaitForResult", <<>>, o.err)
             /\ host' = IF o.hostState = "success"
                        THEN Reconfigured(host, args.vmc) ELSE host
             /\ ft' = [ft EXCEPT !.phase = "done", !.waited = TRUE,
                                 !.waitErr = o.err, !.waitDone = ctxDone,
                                 !.ti = ti, !.res = r.res, !.err = r.err]
             /\ loc' = [loc EXCEPT !.err = r.err,
                                   !.reconfigured = IF r.err = Nil THEN "done" ELSE "failed"]
             /\ Continue("Configure_recheck")
    /\ UNCHANGED hist
    /\ UNCHANGED cmdVars
    /\ UNCHANGED pathVars

\* the network part is an alternative to the reconfigure task: after the
\* task the body returns
ConfigureRecheck_SkipNetwork ==
    /\ opc = "Configure_recheck"
    /\ LET g == checkErr(ctxDone, loc.err)
       IN  /\ Rechecked(loc.err)
           /\ loc' = [loc EXCEPT !.err = g,
                                 !.reconfigured = IF g = Nil THEN @ ELSE "failed"]
           /\ IF g # Nil
              THEN ConfigureReturn(g)
              ELSE ConfigureReturn(Nil)
    /\ UNCHANGED <<host, ft, hist>>
    /\ UNCHANGED cmdVars
    /\ UNCHANGED pathVars

\* `if err = c.checkErr(ctx, err); err != nil { return err }` on what
\* finishTask returned, then the network part or `return nil`
ConfigureRecheck ==
    /\ opc = "Configure_recheck"
    /\ LET g == checkErr(ctxDone, loc.err)
       IN  /\ Rechecked(loc.err)
           /\ loc' = [loc EXCEPT !.err = g,
                                 !.reconfigured = IF g = Nil THEN @ ELSE "failed"]
           /\ IF g # Nil
              THEN ConfigureReturn(g)
              ELSE IF args.vmc.network # "nil"
              THEN Continue("Configure_device")
              ELSE ConfigureReturn(Nil)
    /\ UNCHANGED <<host, ft, hist>>
    /\ UNCHANGED cmdVars
    /\ UNCHANGED pathVars

\* a failed device enumeration undoes the CPU/memory change
ConfigureDevice_Rollback ==
    /\ opc = "Configure_device"
    /\ \E e \in VmErrs :
         LET g == checkErr(ctxDone, e)
         IN  /\ Guarded("VM.Device", <<>>, e)
             /\ IF g # Nil
                THEN /\ ConfigureReturn(g)
                     /\ loc' = [loc EXCEPT !.err = g]
                     /\ host' = loc.before
                ELSE /\ Continue("Configure_retrieve")
                     /\ loc' = [loc EXCEPT !.devices = host.devices]
                     /\ UNCHANGED host
    /\ UNCHANGED <<ft, hist>>
    /\ UNCHANGED cmdVars
    /\ UNCHANGED pathVars

\* devices, err := vm.VM.Device(ctx)
ConfigureDevice ==
    /\ opc = "Configure_device"
    /\ \E e \in VmErrs :
         LET g == checkErr(ctxDone, e)
         IN  /\ Guarded("VM.Device", <<>>, e)
             /\ IF g # Nil
                THEN /\ ConfigureReturn(g)
                     /\ loc' = [loc EXCEPT !.err = g]
                ELSE /\ Continue("Configure_retrieve")
                     /\ loc' = [loc EXCEPT !.devices = host.devices]
    /\ UNCHANGED <<host, ft, hist>>
    /\ UNCHANGED cmdVars
    /\ UNCHANGED pathVars

\* pc.Retrieve(ctx, vm.MO.Network, {"name"}, &dest); network := dest[0]; the
\* early exit when it is the requested one; the selection of the devices
ConfigureRetrieve ==
    /\ opc = "Configure_retrieve"
    /\ \E e \in SdkErrs :
         LET g       == checkErr(ctxDone, e)
             network == args.vm.mo.network[1]
         IN  /\ Guarded("PropertyCollector.Retrieve", <<"name">>, e)
             /\ IF g # Nil
                THEN /\ ConfigureReturn(g)
                     /\ loc' = [loc EXCEPT !.err = g]
                ELSE IF nothingToChange(network, args.vmc.network)
                THEN /\ ConfigureReturn(Nil)
                     /\ loc' = [loc EXCEPT !.network = network]
                ELSE /\ Continue("Configure_network")
                     /\ loc' = [loc EXCEPT
                                  !.network = network,
                                  !.matchingDevices =
                                      SelectByBackingInfo(loc.devices, network)]
    /\ UNCHANGED <<host, ft, hist>>
    /\ UNCHANGED cmdVars
    /\ UNCHANGED pathVars

\* what c.Finder.Network can return for a name
NetworkLookups(name) ==
    {[err |-> SdkError, found |-> FALSE], [err |-> Nil, found |-> FALSE]}
    \cup (IF name \in host.hostNetworks THEN {[err |-> Nil, found |-> TRUE]} ELSE {})

\* a lookup that returns no network and no error is taken as found
ConfigureNetwork_NoNilCheck ==
    /\ opc = "Configure_network"
    /\ \E o \in NetworkLookups(args.vmc.network) :
         LET g == checkErr(ctxDone, o.err)
             e == g
         IN  /\ Guarded("Finder.Network", args.vmc.network, o.err)
             /\ loc' = [loc EXCEPT !.err = e,
                                   !.lookup = IF o.err # Nil THEN "error"
                                              ELSE IF o.found THEN "found" ELSE "nil"]
             /\ IF e # Nil THEN ConfigureReturn(e) ELSE Continue("Configure_backing")
    /\ UNCHANGED <<host, ft, hist>>
    /\ UNCHANGED cmdVars
    /\ UNCHANGED pathVars

\* requestedNetwork, err := c.Finder.Network(ctx, *vmc.Network)
ConfigureNetwork ==
    /\ opc = "Configure_network"
    /\ \E o \in NetworkLookups(args.vmc.network) :
         LET g == checkErr(ctxDone, o.err)
             e == IF g # Nil THEN g
                  ELSE IF ~o.found THEN Errorf("Failed to find requested network")
                  ELSE Nil
         IN  /\ Guarded("Finder.Network", args.vmc.network, o.err)
             /\ loc' = [loc EXCEPT !.err = e,
                                   !.lookup = IF o.err # Nil THEN "error"
                                              ELSE IF o.found THEN "found" ELSE "nil"]
             /\ IF e # Nil THEN ConfigureReturn(e) ELSE Continue("Configure_backing")
    /\ UNCHANGED <<host, ft, hist>>
    /\ UNCHANGED cmdVars
    /\ UNCHANGED pathVars

\* requestedBacking, err := requestedNetwork.EthernetCardBackingInfo(ctx);
\* with no device selected the callback never runs and the body returns nil
ConfigureBacking ==
    /\ opc = "Configure_backing"
    /\ \E e \in SdkErrs :
         LET g == checkErr(ctxDone, e)
         IN  /\ Guarded("Network.EthernetCardBackingInfo", <<>>, e)
             /\ loc' = [loc EXCEPT !.err = g]
             /\ IF g # Nil THEN ConfigureReturn(g)
                ELSE IF loc.matchingDevices = <<>> THEN ConfigureReturn(Nil)
                ELSE Continue("Configure_edit")
    /\ UNCHANGED <<host, ft, hist>>
    /\ UNCHANGED cmdVars
    /\ UNCHANGED pathVars

\* the loop stops at the first edit the guard rejects and the body returns
\* the guard's error
ConfigureEdit_FailFast ==
    /\ opc = "Configure_edit"
    /\ \E e \in VmErrs :
         LET i == loc.matchingDevices[loc.next]
         IN  /\ Guarded("VM.EditDevice", i, e)
             /\ host' = IF e = Nil THEN Edited(host, i, args.vmc.network) ELSE host
             /\ loc' = [loc EXCEPT !.next = @ + 1,
                                   !.err = checkErr(ctxDone, e),
                                   !.edits = Append(@, [device |-> i, err |-> e])]
             /\ IF checkErr(ctxDone, e) # Nil
                THEN ConfigureReturn(checkErr(ctxDone, e))
                ELSE IF loc.next = Len(loc.matchingDevices)
                THEN ConfigureReturn(Nil)
                ELSE Continue("Configure_edit")
    /\ UNCHANGED <<ft, hist>>
    /\ UNCHANGED cmdVars
    /\ UNCHANGED pathVars

\* one run of the callback of matchingDevices.Select: the backing is
\* overwritten, EditDevice is called, the guard's result is dropped; after
\* the last device the body returns nil
ConfigureEdit ==
    /\ opc = "Configure_edit"
    /\ \E e \in VmErrs :
         LET i == loc.matchingDevices[loc.next]
         IN  /\ Guarded("VM.EditDevice", i, e)
             /\ host' = IF e = Nil THEN Edited(host, i, args.vmc.network) ELSE host
             /\ loc' = [loc EXCEPT !.next = @ + 1,
                                   !.err = checkErr(ctxDone, e),
                                   !.edits = Append(@, [device |-> i, err |-> e])]
             /\ IF loc.next = Len(loc.matchingDevices)
                THEN ConfigureReturn(Nil)
                ELSE Continue("Configure_edit")
    /\ UNCHANGED <<ft, hist>>
    /\ UNCHANGED cmdVars
    /\ UNCHANGED pathVars

----------------------------------------------------------------------------
\* The commands' RunE

FindVMArgs(props) ==
    [op |-> "FindVM",
     path |-> IF cli.cmd.targetIsRef THEN VmRef ELSE TargetPath,
     pathIsRef |-> cli.cmd.targetIsRef, props |-> props]

VMArgs(op) == [op |-> op, vm |-> vm]

\* what a command-level step leaves alone
CmdFrame ==
    /\ UNCHANGED <<cli, exitCode, loc, ctxOpen, ctxDone, calls, host, ft, guard,
                   opTimedOut>>
    /\ UNCHANGED pathVars

\* a RunE whose first statement is `vm, err := cc.c.FindVM(target, targetIsRef, props...)`
RunEFindVM(verb, props, next) ==
    /\ At("RunE")
    /\ cli.cmd.verb = verb
    /\ CallOp("FindVM", FindVMArgs(props), next)
    /\ hist' = [hist EXCEPT !.bodyRan = TRUE]
    /\ UNCHANGED <<vm, ret>>
    /\ CmdFrame

\* `if err != nil { return err }` after FindVM, else the next operation
AfterFindVM(here, op, a, next) ==
    /\ At(here)
    /\ IF ret.err # Nil
       THEN /\ RunEReturns(ret.err)
            /\ UNCHANGED <<opc, args, vm>>
       ELSE /\ vm' = ret.val
            /\ CallOp(op, [a EXCEPT !.vm = ret.val], next)
            /\ UNCHANGED ret
    /\ UNCHANGED hist
    /\ CmdFrame

\* `if err != nil { return err }` after an operation, else the next one
AfterOp(here, op, a, next) ==
    /\ At(here)
    /\ IF ret.err # Nil
       THEN /\ RunEReturns(ret.err)
            /\ UNCHANGED <<opc, args>>
       ELSE /\ CallOp(op, a, next)
            /\ UNCHANGED ret
    /\ UNCHANGED <<vm, hist>>
    /\ CmdFrame

\* the last operation's error (or nil) is what RunE returns
AfterLastOp(here) ==
    /\ At(here)
    /\ RunEReturns(ret.err)
    /\ UNCHANGED <<opc, args, vm, hist>>
    /\ CmdFrame

\* the property list of the FindVM call a RunE starts with and the command's
\* position after it; where `if err != nil { return err }` is followed by an
\* operation on the VM alone, that operation and the position after it
RunEOf(verb) ==
    CASE verb = "destroy" ->
           [props |-> {}, next |-> "destroy_FindVM", op |-> "none"]
      [] verb = "power" ->
           [props |-> {}, next |-> "power_FindVM", op |-> "none"]
      [] verb = "snapshot create" ->
           [props |-> {}, next |-> "snapshotCreate_FindVM", op |-> "none"]
      [] verb = "clone" ->
           [props |-> {}, next |-> "clone_FindVM",
            op |-> "Clone", after |-> "clone_Clone"]
      [] verb = "info" ->
           [props |-> {"network", "summary"}, next |-> "info_FindVM",
            op |-> "ReportVM", after |-> "writeVMInfoToConsole"]
      [] verb = "snapshot list" ->
           [props |-> {"snapshot"}, next |-> "snapshotList_FindVM",
            op |-> "SnapshotList", after |-> "snapshotList_SnapshotList"]
      [] verb = "snapshot remove" ->
           [props |-> {}, next |-> "snapshotRemove_FindVM", op |-> "none"]
      [] verb = "snapshot revert" ->
           [props |-> {}, next |-> "snapshotRevert_FindVM", op |-> "none"]
      [] OTHER -> [props |-> {}, next |-> "none", op |-> "none"]

\* RunE of the commands that start with FindVM
RunE ==
    /\ RunEOf(cli.cmd.verb).next # "none"
    /\ RunEFindVM(cli.cmd.verb, RunEOf(cli.cmd.verb).props, RunEOf(cli.cmd.verb).next)

\* info TARGET: `return cc.writeVMInfoToConsole(vm)`, which calls ReportVM;
\* clone SOURCE: cc.c.Clone(vm, name, destination, resourcePool);
\* snapshot list TARGET: cc.c.SnapshotList(vm)
RunEAfterFindVM ==
    LET r == RunEOf(cli.cmd.verb)
    IN  /\ r.op # "none"
        /\ AfterFindVM(r.next, r.op, VMArgs(r.op), r.after)

\* the positions at which a command returns its last operation's error; in
\* writeVMInfoToConsole that is ReportVM, which has none, and `return nil`
LastOps ==
    {"destroy_Destroy", "power_op", "note_AssignNote",
     "snapshotCreate_SnapshotCreate", "configure_Configure",
     "writeVMInfoToConsole", "snapshotRemove_remove",
     "snapshotRevert_SnapshotRevert", "relocate_Relocate"}

\* `return err` / `return nil` after the last operation
RunEReturnsLastOp == \E here \in LastOps : AfterLastOp(here)

\* an error of json.Unmarshal
JsonError == MkErr("jsonSyntaxError", TRUE, "json", NoText, Nil)

\* RunE's `err` once the `if configuration != ""` block is over: the block
\* assigns it json.Unmarshal's result and declares its own `vm, err` for
\* FindVM and Configure
cloneErr ==
    IF cli.cmd.withConfiguration /\ ~cli.cmd.jsonOk THEN JsonError ELSE Nil

\* `if on { cc.c.EnsureOn(newVM) ...}`, else writeVMInfoToConsole(newVM)
cloneOn(newVM) ==
    IF cli.cmd.on
    THEN CallOp("EnsureOn", [op |-> "EnsureOn", vm |-> newVM], "clone_EnsureOn")
    ELSE CallOp("ReportVM", [op |-> "ReportVM", vm |-> newVM], "writeVMInfoToConsole")

\* the command goes on whatever Clone returned
cloneAfterClone_IgnoreError ==
    /\ At("clone_Clone")
    /\ vm' = FoundVM(ret.val, NilMO, 0)
    /\ IF cli.cmd.withConfiguration
       THEN CallOp("FindVM",
                   [op |-> "FindVM", path |-> ret.val, pathIsRef |-> TRUE,
                    props |-> {"network"}],
                   "clone_configuration_FindVM")
       ELSE cloneOn(FoundVM(ret.val, NilMO, 0))
    /\ UNCHANGED <<ret, hist>>
    /\ CmdFrame

\* `if err != nil { return err }` after Clone; result := &VirtualMachine{Ref:
\* newVM.Reference(), VM: newVM}; the configuration block's FindVM
cloneAfterClone ==
    /\ At("clone_Clone")
    /\ IF ret.err # Nil
       THEN /\ RunEReturns(ret.err)
            /\ UNCHANGED <<opc, args, vm>>
       ELSE /\ vm' = FoundVM(ret.val, NilMO, 0)
            /\ IF cli.cmd.withConfiguration
               THEN CallOp("FindVM",
                           [op |-> "FindVM", path |-> ret.val, pathIsRef |-> TRUE,
                            props |-> {"network"}],
                           "clone_configuration_FindVM")
               ELSE cloneOn(FoundVM(ret.val, NilMO, 0))
            /\ UNCHANGED ret
    /\ UNCHANGED hist
    /\ CmdFrame

\* `vm, err := cc.c.FindVM(newVM.Ref.Value, true, "network"); if err != nil
\* { return err }; err = cc.c.Configure(vm, vmc)`
cloneAfterConfigurationFindVM ==
    /\ At("clone_configuration_FindVM")
    /\ IF ret.err # Nil
       THEN /\ RunEReturns(ret.err)
            /\ UNCHANGED <<opc, args>>
       ELSE /\ CallOp("Configure",
                      [op |-> "Configure", vm |-> ret.val,
                       vmc |-> IF cli.cmd.jsonOk THEN cli.cmd.configuration ELSE NoVmc],
                      "clone_Configure")
            /\ UNCHANGED ret
    /\ UNCHANGED <<vm, hist>>
    /\ CmdFrame

\* Configure's error is dropped
cloneAfterConfigure ==
    /\ At("clone_Configure")
    /\ cloneOn(vm)
    /\ UNCHANGED <<ret, vm, hist>>
    /\ CmdFrame

\* EnsureOn's result is dropped; `if err != nil` tests RunE's `err`
cloneAfterEnsureOn ==
    /\ At("clone_EnsureOn")
    /\ IF cloneErr # Nil
       THEN /\ RunEReturns(Errorf("Error requesting power-on new VM"))
            /\ UNCHANGED <<opc, args>>
       ELSE /\ CallOp("ReportVM", [op |-> "ReportVM", vm |-> vm], "writeVMInfoToConsole")
            /\ UNCHANGED ret
    /\ UNCHANGED <<vm, hist>>
    /\ CmdFrame

\* destroy TARGET [--force]
destroyAfterFindVM ==
    AfterFindVM("destroy_FindVM",
                IF cli.cmd.force THEN "EnsureOff" ELSE "Destroy",
                VMArgs(IF cli.cmd.force THEN "EnsureOff" ELSE "Destroy"),
                IF cli.cmd.force THEN "destroy_EnsureOff" ELSE "destroy_Destroy")

\* Destroy is called whatever EnsureOff returned
destroyAfterEnsureOff_IgnoreError ==
    /\ At("destroy_EnsureOff")
    /\ CallOp("Destroy", VMArgs("Destroy"), "destroy_Destroy")
    /\ UNCHANGED <<ret, vm, hist>>
    /\ CmdFrame

\* `err = cc.c.EnsureOff(vm); if err != nil { return err }`, then Destroy
destroyAfterEnsureOff ==
    AfterOp("destroy_EnsureOff", "Destroy", VMArgs("Destroy"), "destroy_Destroy")

\* power STATE TARGET
PowerOp(state) ==
    CASE state = "off"     -> "EnsureOff"
      [] state = "on"      -> "EnsureOn"
      [] state = "suspend" -> "Suspend"
      [] OTHER             -> "none"

powerAfterFindVM ==
    /\ At("power_FindVM")
    /\ IF ret.err # Nil
       THEN /\ RunEReturns(ret.err)
            /\ UNCHANGED <<opc, args, vm>>
       ELSE IF PowerOp(cli.cmd.state) = "none"
       THEN /\ RunEReturns(Errorf("state is invalid"))
            /\ vm' = ret.val
            /\ UNCHANGED <<opc, args>>
       ELSE /\ vm' = ret.val
            /\ CallOp(PowerOp(cli.cmd.state),
                      [op |-> PowerOp(cli.cmd.state), vm |-> ret.val], "power_op")
            /\ UNCHANGED ret
    /\ UNCHANGED hist
    /\ CmdFrame

\* an error of readString
ReadStringError == Wrap(MkErr("ioError", TRUE, "io", NoText, Nil), "Nope...")

\* note TARGET [NOTES] [--overwrite]
noteRunE ==
    /\ At("RunE")
    /\ cli.cmd.verb = "note"
    /\ \E readFails \in BOOLEAN :
         IF readFails
         THEN /\ RunEReturns(ReadStringError)
              /\ UNCHANGED <<opc, args>>
         ELSE /\ CallOp("FindVM",
                        FindVMArgs(IF cli.cmd.overwrite THEN {} ELSE {"config.annotation"}),
                        "note_FindVM")
              /\ UNCHANGED ret
    /\ hist' = [hist EXCEPT !.bodyRan = TRUE]
    /\ UNCHANGED vm
    /\ CmdFrame

noteAfterFindVM ==
    AfterFindVM("note_FindVM", "AssignNote",
                [op |-> "AssignNote", vm |-> vm, note |-> NewNote,
                 overwrite |-> cli.cmd.overwrite],
                "note_AssignNote")

\* snapshot create TARGET
snapshotCreateAfterFindVM ==
    AfterFindVM("snapshotCreate_FindVM", "GetPowerState", VMArgs("GetPowerState"),
                "snapshotCreate_GetPowerState")

snapshotCreateAfterGetPowerState ==
    /\ At("snapshotCreate_GetPowerState")
    /\ IF ret.err # Nil
       THEN /\ RunEReturns(ret.err)
            /\ UNCHANGED <<opc, args>>
       ELSE IF ret.val # PoweredOff
       THEN /\ RunEReturns(Errorf("Cannot get a snapshot of a running machine"))
            /\ UNCHANGED <<opc, args>>
       ELSE /\ CallOp("SnapshotCreate", VMArgs("SnapshotCreate"),
                      "snapshotCreate_SnapshotCreate")
            /\ UNCHANGED ret
    /\ UNCHANGED <<vm, hist>>
    /\ CmdFrame

\* snapshot remove TARGET [SNAPSHOT]: `snapshot := ""; if len(params) == 2
\* { snapshot = params[1] }`, then FindSnapshot if snapshot != "", else
\* SnapshotRemoveAll
snapshotRemoveAfterFindVM ==
    LET snapshot == IF cli.cmd.params = 2 THEN cli.cmd.snapshot ELSE ""
    IN  IF snapshot # ""
        THEN AfterFindVM("snapshotRemove_FindVM", "FindSnapshot",
                         [op |-> "FindSnapshot", vm |-> vm, name |-> snapshot,
                          byRef |-> cli.cmd.snapshotIsRef],
                         "snapshotRemove_FindSnapshot")
        ELSE AfterFindVM("snapshotRemove_FindVM", "SnapshotRemoveAll",
                         VMArgs("SnapshotRemoveAll"), "snapshotRemove_remove")

snapshotRemoveAfterFindSnapshot ==
    AfterOp("snapshotRemove_FindSnapshot", "SnapshotRemove",
            [op |-> "SnapshotRemove", vm |-> vm, moRef |-> ret.val],
            "snapshotRemove_remove")

\* snapshot revert TARGET [SNAPSHOT]: `if len(params) == 1` SnapshotRevert,
\* else FindSnapshot on params[1]
snapshotRevertAfterFindVM ==
    IF cli.cmd.params = 1
    THEN AfterFindVM("snapshotRevert_FindVM", "SnapshotRevert",
                     VMArgs("SnapshotRevert"), "snapshotRevert_SnapshotRevert")
    ELSE AfterFindVM("snapshotRevert_FindVM", "FindSnapshot",
                     [op |-> "FindSnapshot", vm |-> vm, name |-> cli.cmd.snapshot,
                      byRef |-> cli.cmd.snapshotIsRef],
                     "snapshotRevert_FindSnapshot")

\* `snapshot, err := cc.c.FindSnapshot(...); if err != nil { return err }`
snapshotRevertAfterFindSnapshot ==
    AfterOp("snapshotRevert_FindSnapshot", "SnapshotRevertTo",
            [op |-> "SnapshotRevertTo", vm |-> vm, moRef |-> ret.val],
            "snapshotRevert_SnapshotRevertTo")

\* `err = cc.c.SnapshotRevertTo(vm, snapshot)` assigns the `err` that the
\* else block declared with `snapshot, err :=`; the `if err != nil` after the
\* block tests RunE's own `err`, which is nil since FindVM succeeded
snapshotRevertAfterSnapshotRevertTo ==
    /\ At("snapshotRevert_SnapshotRevertTo")
    /\ RunEReturns(Nil)
    /\ UNCHANGED <<opc, args, vm, hist>>
    /\ CmdFrame

\* snapshot list TARGET: `cc.c.SnapshotList(vm)` is called for nothing, its
\* results are dropped; `return nil`
snapshotListAfterSnapshotList ==
    /\ At("snapshotList_SnapshotList")
    /\ RunEReturns(Nil)
    /\ UNCHANGED <<opc, args, vm, hist>>
    /\ CmdFrame

\* relocate TARGET: with neither --name nor --destination there is nothing
\* to do, else FindVM(target, targetIsRef)
relocateRunE ==
    /\ At("RunE")
    /\ cli.cmd.verb = "relocate"
    /\ IF cli.cmd.name = "" /\ cli.cmd.destination = <<>>
       THEN /\ RunEReturns(Nil)
            /\ UNCHANGED <<opc, args>>
       ELSE /\ CallOp("FindVM", FindVMArgs({}), "relocate_FindVM")
            /\ UNCHANGED ret
    /\ hist' = [hist EXCEPT !.bodyRan = TRUE]
    /\ UNCHANGED vm
    /\ CmdFrame

\* cc.c.Relocate(vm, name, destination); relocate passes a name that is set
\* through generateVMName, which gives a name without template actions back
relocateAfterFindVM ==
    AfterFindVM("relocate_FindVM", "Relocate",
                [op |-> "Relocate", vm |-> vm, name |-> cli.cmd.name,
                 destination |-> cli.cmd.destination],
                "relocate_Relocate")

\* configure TARGET [CONFIGURATION]: readString, json.Unmarshal, FindVM
configureRunE ==
    /\ At("RunE")
    /\ cli.cmd.verb = "configure"
    /\ \E readFails \in BOOLEAN :
         IF readFails
         THEN /\ RunEReturns(ReadStringError)
              /\ UNCHANGED <<opc, args>>
         ELSE IF ~cli.cmd.jsonOk
         THEN /\ RunEReturns(JsonError)
              /\ UNCHANGED <<opc, args>>
         ELSE /\ CallOp("FindVM", FindVMArgs({"network"}), "configure_FindVM")
              /\ UNCHANGED ret
    /\ hist' = [hist EXCEPT !.bodyRan = TRUE]
    /\ UNCHANGED vm
    /\ CmdFrame

configureAfterFindVM ==
    AfterFindVM("configure_FindVM", "GetPowerState", VMArgs("GetPowerState"),
                "configure_GetPowerState")

\* only a VM that is powered on is refused
configureAfterGetPowerState_OnlyPoweredOn ==
    /\ At("configure_GetPowerState")
    /\ IF ret.err # Nil
       THEN /\ RunEReturns(ret.err)
            /\ UNCHANGED <<opc, args>>
       ELSE IF ret.val = PoweredOn
       THEN /\ RunEReturns(Errorf("Cannot adjust configuration of a VM that is not powered off"))
            /\ UNCHANGED <<opc, args>>
       ELSE /\ CallOp("Configure",
                      [op |-> "Configure", vm |-> vm, vmc |-> cli.cmd.configuration],
                      "configure_Configure")
            /\ UNCHANGED ret
    /\ UNCHANGED <<vm, hist>>
    /\ CmdFrame

\* the power-state check, then cc.c.Configure(vm, vmc)
configureAfterGetPowerState ==
    /\ At("configure_GetPowerState")
    /\ IF ret.err # Nil
       THEN /\ RunEReturns(ret.err)
            /\ UNCHANGED <<opc, args>>
       ELSE IF ret.val # PoweredOff
       THEN /\ RunEReturns(Errorf("Cannot adjust configuration of a VM that is not powered off"))
            /\ UNCHANGED <<opc, args>>
       ELSE /\ CallOp("Configure",
                      [op |-> "Configure", vm |-> vm, vmc |-> cli.cmd.configuration],
                      "configure_Configure")
            /\ UNCHANGED ret
    /\ UNCHANGED <<vm, hist>>
    /\ CmdFrame

----------------------------------------------------------------------------
ClientNext ==
    \/ NewClientBegin \/ NewClientConnect \/ NewClientDatacenter \/ NewClientDatastore
    \/ FindVMBegin \/ FindVMLookup \/ FindVMProperties
    \/ Begin \/ SubmitTask \/ WaitForTask
    \/ DestroyPowerState \/ EnsureOnWaitForIP \/ GetPowerStatePowerState
    \/ CloneResourcePool \/ CloneFolder
    \/ FindSnapshotBegin \/ SubmitRequest \/ CheckRequest \/ SnapshotListBody
    \/ ReportVMPowerState \/ ReportVMWaitForNetIP \/ ReportVMElement
    \/ ReportVMRetrieve \/ ReportVMNetwork
    \/ ConfigureBegin \/ ConfigureReconfigureSubmit \/ ConfigureReconfigureWait
    \/ ConfigureRecheck \/ ConfigureDevice \/ ConfigureRetrieve
    \/ ConfigureNetwork \/ ConfigureBacking \/ ConfigureEdit

CommandNext ==
    \/ ValidateArgs \/ preRunE \/ preRunEReturn
    \/ testRunE
    \/ RunE \/ RunEAfterFindVM \/ RunEReturnsLastOp
    \/ cloneAfterClone \/ cloneAfterConfigurationFindVM
    \/ cloneAfterConfigure \/ cloneAfterEnsureOn
    \/ destroyAfterFindVM \/ destroyAfterEnsureOff
    \/ powerAfterFindVM
    \/ noteRunE \/ noteAfterFindVM
    \/ snapshotCreateAfterFindVM \/ snapshotCreateAfterGetPowerState
    \/ snapshotRemoveAfterFindVM \/ snapshotRemoveAfterFindSnapshot
    \/ snapshotRevertAfterFindVM \/ snapshotRevertAfterFindSnapshot
    \/ snapshotRevertAfterSnapshotRevertTo
    \/ snapshotListAfterSnapshotList
    \/ relocateRunE \/ relocateAfterFindVM
    \/ configureRunE \/ configureAfterFindVM \/ configureAfterGetPowerState
    \/ main

Next == DeadlineElapses \/ ClientNext \/ CommandNext

Spec == Init /\ [][Next]_vars

(***************************************************************************)
(* Claims about the guard, the task poller and the exit codes              *)
(* (checked under Spec)                                                    *)
(***************************************************************************)
\* the command holds the return of the operation it called last
OpJustReturned ==
    /\ opc = "idle"
    /\ cpc \notin {"idle", "preRunE", "RunE", "main", "exited"}

Operations ==
    {"NewClient", "FindVM", "AssignNote", "Destroy", "EnsureOff", "EnsureOn",
     "Suspend", "GetPowerState", "SnapshotCreate", "Configure"}

TimeoutMsgs == {TimeoutMsg(op) : op \in Operations}

NewClientCalls == {"govmomi.NewClient", "Finder.Datacenter", "Finder.Datastore"}

\* C1: whenever the deadline scope is done when checkErr is evaluated, the
\* result is a TimeoutExceededError whatever the call returned (an error or
\* nil); when the scope is not done the result is the call's error
\* unchanged, nil included.
C1_DeadlineGuard ==
    guard.evaluated =>
        /\ guard.done => guard.out.type = "TimeoutExceededError"
        /\ ~guard.done => guard.out = guard.in

C1_Witness ==
    /\ guard.evaluated
    /\ guard.done
    /\ guard.in = SdkError
    /\ guard.out.type = "TimeoutExceededError"

\* C2 as stated: when the guard reported a timeout inside an operation, the
\* error the operation returns is its "Timeout while ..." error and not the
\* "Got error while ..." wrapper.
C2_TimeoutClassified ==
    (OpJustReturned /\ opTimedOut) =>
        /\ ret.err.type = "errorString"
        /\ ret.err.msg \in TimeoutMsgs

\* C3 as stated: when an operation of the command body ended because its
\* deadline elapsed, the process exits with code 3.
C3_TimeoutExitCode ==
    (cpc = "exited" /\ hist.bodyRan /\ opTimedOut) => exitCode = 3

\* C4 as stated: when the inventory lookup of FindVM returns nothing, the
\* process exits with code 2, the error reaching main being a not-found
\* error.
C4_NotFoundExitCode ==
    (cpc = "exited" /\ hist.lookupEmpty) =>
        /\ exitCode = 2
        /\ ret.err.type = "NotFoundError"

\* C5: the connection step runs before the command body; if NewClient fails
\* for any reason (credentials, URL, connect, datacenter, datastore,
\* timeout) the body never runs, no VM operation is issued and the process
\* exits with code 1.
C5_ConnectionFailure ==
    /\ hist.bodyRan =>
          /\ Len(calls) >= 3
          /\ \A i \in 1..3 : calls[i].call \in NewClientCalls
          /\ ~hist.newClientFailed
    /\ hist.newClientFailed =>
          /\ ~hist.bodyRan
          /\ \A i \in 1..Len(calls) : calls[i].call \in NewClientCalls
          /\ cpc \in {"main", "exited"}
          /\ cpc = "exited" => exitCode = 1

C5_Witness ==
    /\ cpc = "exited"
    /\ hist.newClientFailed
    /\ opTimedOut
    /\ Len(calls) = 2
    /\ exitCode = 1

\* C6: if the submission returned an error, or the deadline is already done
\* when the submission returns, finishTask returns that failure at once and
\* the task is never waited on.
C6_SubmissionFailure ==
    (ft.phase # "none" /\ (ft.subErr # Nil \/ ft.subDone)) =>
        /\ ft.phase = "returned"
        /\ ~ft.waited
        /\ ft.err # Nil
        /\ ft.err.cause = (IF ft.subDone THEN TimeoutExceededErrorValue ELSE ft.subErr)
        /\ calls[Len(calls)].call # "Task.WaitForResult"

C6_Witness ==
    /\ ft.phase = "returned"
    /\ ft.subErr = Nil
    /\ ft.subDone
    /\ opc = "idle"
    /\ ret.err # Nil

\* C7 as stated: when the wait completes before the deadline, a task in
\* state success yields its result payload and no error; any other terminal
\* state yields no payload and an error whose message is the host-supplied
\* localized message.
C7_TaskOutcome ==
    (ft.phase = "done" /\ ft.waitErr = Nil /\ ~ft.waitDone) =>
        IF ft.ti.state = "success"
        THEN ft.err = Nil /\ ft.res = ft.ti.result
        ELSE ft.err # Nil /\ ft.res = "nil" /\ ErrorText(ft.err) = ft.ti.msg

(***************************************************************************)
(* Claims about Configure, Destroy and AssignNote (checked under Spec)     *)
(***************************************************************************)
\* Configure is the operation called last and its body has been entered
InConfigure ==
    /\ loc.op = "Configure"
    /\ args.op = "Configure"

\* Configure has returned to the command
ConfigureReturned ==
    /\ cpc \in {"configure_Configure", "clone_Configure", "main", "exited"}
    /\ opc = "idle"
    /\ InConfigure

\* the remote calls Configure has issued so far
ConfigureCalls ==
    IF InConfigure THEN SubSeq(calls, loc.entry + 1, Len(calls)) ELSE <<>>

\* the names of the remote calls of a sequence of calls
CallNames(cs) == [i \in 1..Len(cs) |-> cs[i].call]

\* the remote calls of Configure's network part
NetworkPartCalls ==
    SelectSeq(ConfigureCalls,
              LAMBDA c : c.call \notin {"VM.Reconfigure", "Task.WaitForResult"})

\* the requested network is the VM's first associated network
SameNetworkRequested ==
    /\ InConfigure
    /\ args.vmc.network = args.vm.mo.network[1]

\* C11: Configure with CPUs, Memory and Network all absent issues no remote
\* call, read or mutation, and returns success (it has returned nil as soon
\* as it has been entered, and the host is as it was).
C11_SparseConfigure ==
    (InConfigure /\ args.vmc = NoVmc) =>
        /\ opc = "idle"
        /\ ConfigureCalls = <<>>
        /\ ret.err = Nil
        /\ ctxOpen = 0
        /\ host = loc.before

C11_Witness ==
    /\ cpc = "exited"
    /\ InConfigure
    /\ args.vmc = NoVmc
    /\ exitCode = 0
    /\ Len(calls) = 6

\* C12: Configure with a Network equal to the name of the VM's first
\* associated network never issues a device edit nor a lookup of the
\* requested network, and it returns success whenever the calls it did issue
\* (the reconfigure task if CPUs or Memory are present, the device
\* enumeration, the name retrieval) succeeded within the deadline.
C12_NetworkNoOp ==
    SameNetworkRequested =>
        /\ \A i \in 1..Len(ConfigureCalls) :
               ConfigureCalls[i].call \notin
                   {"VM.EditDevice", "Finder.Network", "Network.EthernetCardBackingInfo"}
        /\ ConfigureReturned =>
               (ret.err = Nil <=>
                   /\ \A i \in 1..Len(ConfigureCalls) : ConfigureCalls[i].err = Nil
                   /\ ~opTimedOut
                   /\ loc.reconfigured # "failed")
        /\ host.devices = loc.before.devices

C12_Witness ==
    /\ ConfigureReturned
    /\ SameNetworkRequested
    /\ ~reconfigure(args.vmc)
    /\ CallNames(ConfigureCalls) = <<"VM.Device", "PropertyCollector.Retrieve">>
    /\ Len(loc.devices) = 3
    /\ ret.err = Nil

\* C13 as stated: when the requested network is the current one, the network
\* part of Configure issues no remote call at all, neither the device
\* enumeration nor the retrieval of the network's name.
C13_NoRemoteCall ==
    (ConfigureReturned /\ SameNetworkRequested) => NetworkPartCalls = <<>>

\* C13 amended: when the requested network is the current one, the network
\* part of Configure issues the device enumeration and then, if that passed
\* the guard, the retrieval of the network's name, and no other remote call:
\* the early exit comes after these two reads.
C13_ShortCircuitAfterReads ==
    (ConfigureReturned /\ SameNetworkRequested /\ loc.reconfigured # "failed") =>
        /\ CallNames(NetworkPartCalls) \in
               {<<"VM.Device">>, <<"VM.Device", "PropertyCollector.Retrieve">>}
        /\ Len(NetworkPartCalls) = 2 <=> loc.devices # <<>>

C13_Witness ==
    /\ ConfigureReturned
    /\ SameNetworkRequested
    /\ loc.reconfigured = "done"
    /\ Len(NetworkPartCalls) = 2
    /\ loc.network = args.vmc.network
    /\ ret.err = Nil

\* some remote call issued so far has this name
Issued(call) == \E i \in 1..Len(calls) : calls[i].call = call

\* C14: Destroy submits the destroy task only if the power state it queried
\* in its own deadline scope is poweredOff and the query passed the guard;
\* for poweredOn and suspended, and when the query fails or times out,
\* Destroy returns an error, the query is the last remote call it issued and
\* the VM is not destroyed.
C14_DestroyPrecondition ==
    loc.op = "Destroy" =>
        /\ Issued("VM.Destroy") => (loc.powerState = "poweredOff" /\ loc.err = Nil)
        /\ (loc.powerState # "poweredOff" \/ loc.err # Nil) =>
               /\ opc = "idle"
               /\ ret.err # Nil
               /\ calls[Len(calls)].call = "VM.PowerState"
               /\ ~Issued("VM.Destroy")
               /\ ~host.destroyed

C14_Witness ==
    /\ cpc = "exited"
    /\ loc.op = "Destroy"
    /\ loc.powerState = "suspended"
    /\ loc.err = Nil
    /\ ret.err # Nil
    /\ ~host.destroyed

\* the reconfigure tasks submitted so far
ReconfigureCalls == SelectSeq(calls, LAMBDA c : c.call = "VM.Reconfigure")

\* AssignNote has made its submission
AssignNoteSubmitted ==
    /\ args.op = "AssignNote"
    /\ opc \in {"AssignNote_wait", "idle"}

\* C15: AssignNote submits exactly one reconfigure task; its annotation is
\* the new note alone when overwrite is true, the new note alone when
\* overwrite is false and the pre-fetched annotation is empty, and the
\* pre-fetched annotation, two newlines and the new note otherwise. With
\* overwrite true the VM handle carries no property snapshot to read. When
\* the task succeeds the submitted annotation is the VM's annotation.
C15_Annotation ==
    AssignNoteSubmitted =>
        /\ Len(ReconfigureCalls) = 1
        /\ ReconfigureCalls[1].arg =
               (IF args.overwrite THEN args.note
                ELSE IF args.vm.mo.annotation = <<>> THEN args.note
                ELSE args.vm.mo.annotation \o <<"\n", "\n">> \o args.note)
        /\ args.overwrite => args.vm.mo = NilMO
        /\ (opc = "idle" /\ ret.err = Nil) =>
               host.annotation = ReconfigureCalls[1].arg

C15_Witness ==
    /\ AssignNoteSubmitted
    /\ opc = "idle"
    /\ ~args.overwrite
    /\ args.vm.mo.annotation = <<"A">>
    /\ ReconfigureCalls[1].arg = <<"A", "\n", "\n", "B">>
    /\ host.annotation = <<"A", "\n", "\n", "B">>
    /\ ret.err = Nil

\* the device edits Configure has issued so far
EditCalls == SelectSeq(ConfigureCalls, LAMBDA c : c.call = "VM.EditDevice")

\* the devices the edit calls were issued for, in the order of the calls
EditedDevices == [i \in 1..Len(EditCalls) |-> EditCalls[i].arg]

\* a different network than the current one is requested
OtherNetworkRequested ==
    /\ InConfigure
    /\ args.vmc.network # "nil"
    /\ args.vmc.network # args.vm.mo.network[1]

\* the positions of the adapters that were on network n when Configure began
AdaptersOn(n) ==
    {i \in 1..Len(loc.before.devices) : loc.before.devices[i] = Adapter(n)}

\* C16: once adapters have been selected and the edit loop is entered,
\* whatever subset of the edit calls fails, Configure issues exactly one edit
\* call for every selected adapter, in enumeration order, and returns
\* success; each adapter whose edit succeeded is on the requested network and
\* each adapter whose edit failed is where it was.
C16_BestEffort ==
    (/\ InConfigure
     /\ (opc = "Configure_edit" \/ EditCalls # <<>>)) =>
        /\ Len(loc.matchingDevices) >= 1
        /\ EditedDevices = SubSeq(loc.matchingDevices, 1, Len(EditCalls))
        /\ opc \in {"Configure_edit", "idle"}
        /\ opc = "Configure_edit" <=> Len(EditCalls) < Len(loc.matchingDevices)
        /\ opc = "idle" => ret.err = Nil
        /\ \A k \in 1..Len(EditCalls) :
               host.devices[EditCalls[k].arg] =
                   (IF EditCalls[k].err = Nil
                    THEN Adapter(args.vmc.network)
                    ELSE loc.before.devices[EditCalls[k].arg])

C16_Witness ==
    /\ ConfigureReturned
    /\ Len(loc.matchingDevices) = 2
    /\ Len(EditCalls) = 2
    /\ EditCalls[1].err = SdkError
    /\ EditCalls[2].err = Nil
    /\ host.devices[EditCalls[1].arg] = Adapter(loc.network)
    /\ host.devices[EditCalls[2].arg] = Adapter(args.vmc.network)
    /\ ret.err = Nil

\* C17 as stated: after a Configure that requests network N and returns
\* success with every edit call succeeding, every network adapter of the VM
\* is attached to N, also when the adapters started on several networks.
C17_AllAdaptersRewired ==
    (/\ ConfigureReturned
     /\ args.vmc.network # "nil"
     /\ ret.err = Nil
     /\ \A k \in 1..Len(EditCalls) : EditCalls[k].err = Nil) =>
        \A i \in 1..Len(host.devices) :
            host.devices[i].kind = "adapter" => host.devices[i].net = args.vmc.network

\* C18: the adapters Configure rewires are those that were on the VM's first
\* associated network: every edit call is for such an adapter, a Configure
\* that ran its network part to the end has issued an edit call for each of
\* them, and every other adapter and every non-adapter device has no edit
\* call and is as it was.
C18_DeviceSelection ==
    InConfigure =>
        /\ Range(EditedDevices) \subseteq AdaptersOn(args.vm.mo.network[1])
        /\ (ConfigureReturned /\ OtherNetworkRequested /\ ret.err = Nil) =>
               Range(EditedDevices) = AdaptersOn(args.vm.mo.network[1])
        /\ Len(host.devices) = Len(loc.before.devices)
        /\ \A i \in 1..Len(host.devices) :
               i \notin AdaptersOn(args.vm.mo.network[1]) =>
                   host.devices[i] = loc.before.devices[i]

C18_Witness ==
    /\ ConfigureReturned
    /\ OtherNetworkRequested
    /\ ret.err = Nil
    /\ loc.before.devices = <<Adapter("B"), Disk, Adapter("A")>>
    /\ args.vm.mo.network[1] = "A"
    /\ EditedDevices = <<3>>
    /\ host.devices = <<Adapter("B"), Disk, Adapter("C")>>

\* C19: if the lookup of the requested network returns an error or no
\* network, Configure returns an error, the lookup is the last remote call it
\* issued, no device edit is issued and every device is as it was.
C19_NetworkNotResolved ==
    (InConfigure /\ loc.lookup \in {"error", "nil"}) =>
        /\ opc = "idle"
        /\ ret.err # Nil
        /\ calls[Len(calls)].call = "Finder.Network"
        /\ EditCalls = <<>>
        /\ host.devices = loc.before.devices

C19_Witness ==
    /\ ConfigureReturned
    /\ loc.lookup = "nil"
    /\ ~opTimedOut
    /\ args.vmc.network = "C"
    /\ ret.err # Nil
    /\ Len(loc.matchingDevices) = 2

\* the device enumeration, the first remote call of the network part, was issued
NetworkPartAttempted ==
    \E i \in 1..Len(ConfigureCalls) : ConfigureCalls[i].call = "VM.Device"

\* C20 as stated: the network part of Configure is attempted whenever a
\* different network is requested, whether or not a CPU/memory reconfigure
\* was requested and whatever that reconfigure task's outcome.
C20_NetworkRegardless ==
    (ConfigureReturned /\ OtherNetworkRequested) => NetworkPartAttempted

\* C20 amended: the reconfigure task is submitted exactly when CPUs or Memory
\* is present, whether or not a network is requested; when a different
\* network is requested the network part is attempted exactly when no
\* reconfigure was requested or the reconfigure task succeeded within the
\* deadline; when the reconfigure fails or times out Configure returns that
\* error without any network-related call.
C20_NetworkAfterReconfigure ==
    ConfigureReturned =>
        /\ (\E i \in 1..Len(ConfigureCalls) : ConfigureCalls[i].call = "VM.Reconfigure")
               <=> reconfigure(args.vmc)
        /\ OtherNetworkRequested =>
               (NetworkPartAttempted <=> loc.reconfigured \in {"no", "done"})
        /\ loc.reconfigured = "failed" =>
               /\ ret.err # Nil
               /\ NetworkPartCalls = <<>>

C20_Witness ==
    /\ ConfigureReturned
    /\ OtherNetworkRequested
    /\ args.vmc.cpus = <<2>>
    /\ loc.reconfigured = "done"
    /\ host.cpus = 2
    /\ NetworkPartAttempted
    /\ Len(EditCalls) >= 1
    /\ ret.err = Nil

(***************************************************************************)
(* FindVM and the property snapshot                                        *)
(***************************************************************************)
\* the remote calls of the operation in progress (of the last one, when none is)
OpCalls ==
    IF opc = args.op THEN <<>> ELSE SubSeq(calls, hist.entry + 1, Len(calls))

\* those of them that are calls to `name`
CallsTo(name) == SelectSeq(OpCalls, LAMBDA c : c.call = name)

\* the inventory lookup of this FindVM came back with neither an object nor an error
LookupReturnedNothing ==
    /\ CallsTo("SearchIndex.FindByInventoryPath") # <<>>
    /\ CallsTo("SearchIndex.FindByInventoryPath")[1].err = Nil
    /\ ~(host.exists /\ ~host.destroyed)

\* C21: FindVM with pathIsRef true issues no inventory lookup and its handle's
\* reference is the given string; with pathIsRef false it issues exactly one
\* inventory lookup, on makeInventoryPath(path); when that lookup returns
\* nothing FindVM fails, returns no VM and issues no property retrieval, and
\* unless the deadline had elapsed its error is the one saying the VM was not
\* found.
C21_FindVMLookup ==
    args.op = "FindVM" =>
        /\ args.pathIsRef =>
              /\ CallsTo("SearchIndex.FindByInventoryPath") = <<>>
              /\ opc # "FindVM" => loc.ref = args.path
              /\ (opc = "idle" /\ ret.err = Nil) => ret.val.ref = args.path
        /\ (~args.pathIsRef /\ opc \in {"FindVM", "FindVM_lookup"}) =>
              OpCalls = <<>>
        /\ (~args.pathIsRef /\ opc \notin {"FindVM", "FindVM_lookup"}) =>
              /\ Len(CallsTo("SearchIndex.FindByInventoryPath")) = 1
              /\ OpCalls[1].call = "SearchIndex.FindByInventoryPath"
              /\ OpCalls[1].arg = makeInventoryPath(pDC, args.path)
        /\ LookupReturnedNothing =>
              /\ opc = "idle"
              /\ ret.err # Nil
              /\ ret.val = "none"
              /\ CallsTo("PropertyCollector.Retrieve") = <<>>
              /\ guard.out = Nil => Cause(ret.err) = Errorf("Failed to find VM")

C21_Witness ==
    /\ args.op = "FindVM"
    /\ ~args.pathIsRef
    /\ LookupReturnedNothing
    /\ guard.out = Nil
    /\ opc = "idle"
    /\ CallNames(OpCalls) = <<"SearchIndex.FindByInventoryPath">>
    /\ Cause(ret.err) = Errorf("Failed to find VM")

\* the property retrievals of this FindVM
Retrievals == CallsTo("PropertyCollector.Retrieve")

\* C22: FindVM issues its batched property retrieval exactly once when the
\* property list is non-empty and the reference was obtained, and never
\* otherwise; the handle it returns carries a property snapshot exactly when
\* that call was made and passed the guard, and none when no property was
\* requested.
C22_PropertySnapshot ==
    (args.op = "FindVM" /\ opc = "idle") =>
        /\ Len(Retrievals) <= 1
        /\ Len(Retrievals) = 1 <=> (args.props # {} /\ loc.ref # "none")
        /\ loc.ref # "none" <=>
              \/ args.pathIsRef
              \/ /\ CallsTo("SearchIndex.FindByInventoryPath") # <<>>
                 /\ ~LookupReturnedNothing
                 /\ (Len(OpCalls) = 1 => guard.out = Nil)
                 /\ OpCalls[1].err = Nil
        /\ ret.err = Nil =>
              /\ (ret.val.mo # NilMO) <=> (Len(Retrievals) = 1 /\ guard.out = Nil)
              /\ args.props = {} => (ret.val.mo = NilMO /\ ret.val.fetches = 0)
              /\ args.props # {} => ret.val.mo.props = args.props
        /\ (Len(Retrievals) = 1 /\ guard.out # Nil) => ret.err # Nil

C22_Witness ==
    /\ args.op = "FindVM"
    /\ opc = "idle"
    /\ args.props = {"network"}
    /\ Len(Retrievals) = 1
    /\ ret.err = Nil
    /\ ret.val.mo.props = {"network"}
    /\ ret.val.mo.network[1] = "A"

(***************************************************************************)
(* EnsureOn                                                                *)
(***************************************************************************)
\* the power-on task of this EnsureOn ended in success and its wait passed the guard
PowerOnSucceeded ==
    /\ ft.phase = "done"
    /\ ft.ti.state = "success"
    /\ ft.err = Nil

\* C24: EnsureOn submits the power-on task as its first remote call and never
\* queries the power state; it waits for the guest's IP address only after
\* the power-on task has succeeded; it returns success only if the task
\* succeeded and the wait for the IP address returned without error before
\* the deadline; when the task fails or times out, the wait for the IP
\* address is never issued.
C24_EnsureOn ==
    args.op = "EnsureOn" =>
        /\ CallsTo("VM.PowerState") = <<>>
        /\ opc \notin {"EnsureOn", "EnsureOn_submit"} =>
              (OpCalls[1].call = "VM.PowerOn" /\ Len(CallsTo("VM.PowerOn")) = 1)
        /\ (opc = "EnsureOn_waitForIP" \/ CallsTo("VM.WaitForIP") # <<>>) =>
              /\ PowerOnSucceeded
              /\ CallNames(SubSeq(OpCalls, 1, 2)) = <<"VM.PowerOn", "Task.WaitForResult">>
        /\ (opc = "idle" /\ ret.err = Nil) =>
              /\ PowerOnSucceeded
              /\ CallNames(OpCalls) = <<"VM.PowerOn", "Task.WaitForResult", "VM.WaitForIP">>
              /\ OpCalls[3].err = Nil
              /\ ~guard.done
        /\ (opc = "idle" /\ ~PowerOnSucceeded) =>
              /\ ret.err # Nil
              /\ CallsTo("VM.WaitForIP") = <<>>

C24_Witness ==
    /\ args.op = "EnsureOn"
    /\ opc = "idle"
    /\ ret.err = Nil
    /\ PowerOnSucceeded
    /\ CallNames(OpCalls) = <<"VM.PowerOn", "Task.WaitForResult", "VM.WaitForIP">>
    /\ host.power = "poweredOn"

(***************************************************************************)
(* Deadline scopes                                                         *)
(***************************************************************************)
\* an operation has been called and its body has not begun
OpCalled == opc # "idle" /\ opc = args.op

\* an operation's body is between its first statement and its return
OpExecuting == opc # "idle" /\ opc # args.op

\* the number of open scopes is that of the operation in progress
ScopesBalanced ==
    /\ OpExecuting => ctxOpen = 1
    /\ ~OpExecuting => ctxOpen = 0

\* a step opens a scope only as an operation's body begins, and the scope it
\* opens has not expired; a step closes a scope only as the operation
\* returns; a scope expires only while it is open
ScopeStep ==
    /\ ctxOpen' > ctxOpen => (OpCalled /\ ctxOpen' = ctxOpen + 1 /\ ~ctxDone')
    /\ (OpCalled /\ opc' # opc /\ opc' # "idle") => (ctxOpen' = 1 /\ ~ctxDone')
    /\ ctxOpen' < ctxOpen => (OpExecuting /\ opc' = "idle" /\ ctxOpen' = 0)
    /\ (opc # "idle" /\ opc' = "idle") => ctxOpen' = 0
    /\ (~ctxDone /\ ctxDone') => (ctxOpen = 1 /\ ctxOpen' = 1)

\* C25: every operation opens exactly one fresh deadline scope as its body
\* begins and releases it on every return; zero scopes are open whenever no
\* operation is executing, one while one is; the scope an operation opens has
\* not expired, whatever happened to the scope of the operation before it.
C25_ScopeDiscipline == []ScopesBalanced /\ [][ScopeStep]_vars

\* an operation is about to begin after the scope of the one before it expired
C25_Witness ==
    /\ OpCalled
    /\ args.op \in {"Destroy", "EnsureOff", "EnsureOn", "Suspend", "SnapshotCreate"}
    /\ ctxDone
    /\ ctxOpen = 0

(***************************************************************************)
(* No retry                                                                *)
(***************************************************************************)
\* C26: within one invocation of an operation no remote call is issued
\* twice: each call site is executed at most once, the device edit at most
\* once per device, whatever the outcome of the call was.
C26_NoRetry ==
    \A i, j \in 1..Len(OpCalls) :
        (i # j /\ OpCalls[i].call = OpCalls[j].call) =>
            /\ OpCalls[i].call \in {"VM.EditDevice", "PropertyCollector.Retrieve"}
            /\ OpCalls[i].arg # OpCalls[j].arg

\* Configure has returned after editing two devices, the first edit having failed
C26_Witness ==
    /\ args.op = "Configure"
    /\ opc = "idle"
    /\ Len(CallsTo("VM.EditDevice")) = 2
    /\ CallsTo("VM.EditDevice")[1].err # Nil
    /\ Len(CallsTo("VM.Device")) = 1

(***************************************************************************)
(* destroy --force                                                         *)
(***************************************************************************)
ForcedDestroy == cli.cmd.verb = "destroy" /\ cli.cmd.force

\* no call of Destroy is issued unless EnsureOff was run first; a run that
\* exits with success has powered the VM off and then destroyed it
ForcedDestroyOrder ==
    ForcedDestroy =>
        /\ (Issued("VM.PowerState") \/ Issued("VM.Destroy")) =>
              /\ Issued("VM.PowerOff")
              /\ cpc \in {"destroy_Destroy", "main", "exited"}
        /\ (cpc = "exited" /\ exitCode = 0) =>
              /\ host.destroyed
              /\ Len(calls) >= 5
              /\ CallNames(SubSeq(calls, Len(calls) - 4, Len(calls))) =
                    <<"VM.PowerOff", "Task.WaitForResult", "VM.PowerState",
                      "VM.Destroy", "Task.WaitForResult">>

\* Destroy is called only on EnsureOff's success; EnsureOff's error is what
\* the command returns
ForcedDestroyStep ==
    ForcedDestroy =>
        /\ (opc = "idle" /\ opc' = "EnsureOff") =>
              (At("destroy_FindVM") /\ ret.err = Nil)
        /\ (opc = "idle" /\ opc' = "Destroy") =>
              (At("destroy_EnsureOff") /\ ret.err = Nil)
        /\ (At("destroy_EnsureOff") /\ ret.err # Nil) =>
              /\ cpc' = "main"
              /\ opc' = "idle"
              /\ ret'.err = ret.err
              /\ calls' = calls
              /\ host' = host

\* C27: `destroy --force` runs EnsureOff and then Destroy; when the command
\* succeeds the VM has been powered off and destroyed; when EnsureOff fails
\* its error is returned and Destroy is never attempted.
C27_ForcedDestroy == []ForcedDestroyOrder /\ [][ForcedDestroyStep]_vars

C27_Witness ==
    /\ ForcedDestroy
    /\ hist.power0 = "poweredOn"
    /\ cpc = "exited"
    /\ exitCode = 0
    /\ host.destroyed
    /\ host.power = "poweredOff"

(***************************************************************************)
(* configure: the power-state precondition                                 *)
(***************************************************************************)
\* the error of the configure command for a VM that is not powered off
NotPoweredOffError ==
    Errorf("Cannot adjust configuration of a VM that is not powered off")

\* Configure runs only on a VM that was powered off when the command queried
\* it; a run on a VM in another state fails and leaves the VM as it was
ConfigureOnlyPoweredOff ==
    cli.cmd.verb = "configure" =>
        /\ args.op = "Configure" =>
              (hist.power0 = "poweredOff" /\ host.power = "poweredOff")
        /\ (cpc = "exited" /\ hist.power0 # "poweredOff") =>
              /\ exitCode # 0
              /\ args.op # "Configure"
              /\ ~Issued("VM.Reconfigure") /\ ~Issued("VM.Device")

\* the command calls Configure only from a query that returned PoweredOff
\* without error; any other return of the query ends the command with an
\* error, without a further call
PowerCheckStep ==
    cli.cmd.verb = "configure" =>
        /\ (opc = "idle" /\ opc' = "Configure") =>
              /\ At("configure_GetPowerState")
              /\ ret.err = Nil
              /\ ret.val = PoweredOff
        /\ (At("configure_GetPowerState") /\
              (ret.err # Nil \/ ret.val \in {PoweredOn, Suspended, Unknown})) =>
              /\ cpc' = "main"
              /\ opc' = "idle"
              /\ ret'.err = IF ret.err # Nil THEN ret.err ELSE NotPoweredOffError
              /\ calls' = calls
              /\ host' = host

\* C28: the configure command calls Configure only if the power state it
\* queried is poweredOff; for poweredOn, suspended and unknown it returns an
\* error and Configure is never called.
C28_ConfigurePowerCheck == []ConfigureOnlyPoweredOff /\ [][PowerCheckStep]_vars

C28_Witness ==
    /\ cli.cmd.verb = "configure"
    /\ cli.cmd.configuration.network = "C"
    /\ hist.power0 = "suspended"
    /\ cpc = "exited"
    /\ args.op = "GetPowerState"
    /\ ret.err = NotPoweredOffError
    /\ calls[Len(calls)].call = "VM.PowerState"
    /\ calls[Len(calls)].err = Nil

(***************************************************************************)
(* The property snapshot of a handle                                       *)
(***************************************************************************)
\* the handles in use: the command's, and the one the operation was given
Handles == {vm} \cup (IF "vm" \in DOMAIN args THEN {args.vm} ELSE {})

\* a handle carries a snapshot exactly when it was fetched for it, once
SnapshotOnce ==
    \A h \in Handles :
        /\ h.fetches <= 1
        /\ h.mo = NilMO <=> h.fetches = 0

\* no step changes a handle that carries a snapshot
SnapshotKept ==
    /\ vm.mo # NilMO => vm' = vm
    /\ (OpExecuting /\ "vm" \in DOMAIN args /\ args.vm.mo # NilMO) =>
          args'.vm = args.vm

\* the retrievals of a VM's properties issued so far in the run
SnapshotFetches ==
    SelectSeq(calls, LAMBDA c : c.call = "PropertyCollector.Retrieve"
                                  /\ c.arg # <<"name">>)

\* C23: the property snapshot of a VM handle is fetched at most once in a
\* run, by FindVM or by ReportVM when the handle has none; a handle that
\* carries a snapshot is not changed by any later step.
C23_SnapshotOnce == []SnapshotOnce /\ [][SnapshotKept]_vars

\* clone --configuration: the handle FindVM made for Configure and the new
\* VM's handle, filled in by ReportVM, have one fetch each
C23_Witness ==
    /\ cli.cmd.verb = "clone"
    /\ args.op = "ReportVM"
    /\ opc = "idle"
    /\ vm.fetches = 1
    /\ vm.mo.props = {"network", "summary"}
    /\ Len(SnapshotFetches) = 2
    /\ ret.val.network = "A"

(***************************************************************************)
(* clone                                                                   *)
(***************************************************************************)
\* a run of clone that powers the new VM on and exits with success has had
\* its wait for the IP address return without error
CloneSuccessMeansOn ==
    (cli.cmd.verb = "clone" /\ cli.cmd.on /\ cpc = "exited" /\ exitCode = 0) =>
        \E i \in 1..Len(calls) :
            calls[i].call = "VM.WaitForIP" /\ calls[i].err = Nil

\* an error of EnsureOn ends the command with an error
EnsureOnErrorReturned ==
    (cli.cmd.verb = "clone" /\ At("clone_EnsureOn") /\ ret.err # Nil) =>
        (cpc' = "main" /\ ret'.err # Nil)

\* C29: clone with --on succeeds only if EnsureOn succeeded; when EnsureOn
\* fails or times out the command returns an error.
C29_CloneEnsuresOn == []CloneSuccessMeansOn /\ [][EnsureOnErrorReturned]_vars

\* the calls Configure issues
ConfigureCallNames ==
    {"VM.Reconfigure", "VM.Device", "Finder.Network",
     "Network.EthernetCardBackingInfo", "VM.EditDevice"}

\* the clone task has been submitted and waited for without error
CloneTaskDone(k) ==
    /\ k + 1 <= Len(calls)
    /\ calls[k].call = "VM.Clone" /\ calls[k].err = Nil
    /\ calls[k + 1].call = "Task.WaitForResult" /\ calls[k + 1].err = Nil

\* every call of Configure comes after the clone task and before the power-on
\* submission; without a new VM neither Configure nor EnsureOn is called
CloneOrder ==
    cli.cmd.verb = "clone" =>
        /\ \A i \in 1..Len(calls) :
              calls[i].call \in ConfigureCallNames \cup {"VM.PowerOn"} =>
                  \E k \in 1..(i - 1) : CloneTaskDone(k)
        /\ \A i, j \in 1..Len(calls) :
              (calls[i].call \in ConfigureCallNames /\ calls[j].call = "VM.PowerOn")
                  => i < j
        /\ args.op \in {"Configure", "EnsureOn"} => vm.ref = NewVmRef
        /\ (args.op = "Configure" /\ OpExecuting) => ~Issued("VM.PowerOn")

\* a failed Clone ends the command; with --configuration the power-on is
\* requested only once Configure has returned
CloneOrderStep ==
    cli.cmd.verb = "clone" =>
        /\ (At("clone_Clone") /\ ret.err # Nil) =>
              (cpc' = "main" /\ opc' = "idle" /\ ret'.err = ret.err /\ calls' = calls)
        /\ (opc = "idle" /\ opc' = "Configure") =>
              (cli.cmd.withConfiguration /\ At("clone_configuration_FindVM") /\ ret.err = Nil)
        /\ (opc = "idle" /\ opc' = "EnsureOn") =>
              IF cli.cmd.withConfiguration
              THEN At("clone_Configure") /\ args.op = "Configure"
              ELSE At("clone_Clone") /\ ret.err = Nil

\* C30: with --configuration given, clone reconfigures the new VM after the
\* clone task has completed and before the power-on; when the clone fails,
\* neither Configure nor EnsureOn is issued.
C30_CloneConfiguration == []CloneOrder /\ [][CloneOrderStep]_vars

C30_Witness ==
    /\ cli.cmd.verb = "clone"
    /\ cli.cmd.withConfiguration
    /\ cli.cmd.on
    /\ cpc = "exited"
    /\ exitCode = 0
    /\ \E k, i, j \in 1..Len(calls) :
          /\ CloneTaskDone(k)
          /\ k < i /\ i < j
          /\ calls[i].call = "VM.Reconfigure" /\ calls[i].err = Nil
          /\ calls[j].call = "VM.PowerOn" /\ calls[j].err = Nil
    /\ host.power = "poweredOn"

(***************************************************************************)
(* Claims about the snapshot commands (checked under Spec)                 *)
(***************************************************************************)
\* the command ended before any operation on the VM was called
EndedBeforeVMOps == args.op \in {"NewClient", "FindVM"}

\* C31: snapshot remove takes SNAPSHOT as optional: given TARGET only, the
\* operation it calls on the VM it found is SnapshotRemoveAll; given TARGET
\* and a SNAPSHOT, it resolves the snapshot and calls SnapshotRemove, and
\* never removes all snapshots.
C31_SnapshotOptional ==
    (cli.cmd.verb = "snapshot remove" /\ cpc = "exited" /\ ~EndedBeforeVMOps) =>
        /\ cli.cmd.params = 1 => args.op = "SnapshotRemoveAll"
        /\ (cli.cmd.params = 2 /\ cli.cmd.snapshot # "") =>
              /\ args.op \in {"FindSnapshot", "SnapshotRemove"}
              /\ ~Issued("VM.RemoveAllSnapshot")

\* the specific revert operation was called and returned an error
RevertFailed ==
    /\ args.op \in {"SnapshotRevert", "SnapshotRevertTo"}
    /\ guard.out # Nil \/ (ft.phase # "none" /\ ft.err # Nil)

\* C32: when SnapshotRevert or SnapshotRevertTo returns an error, snapshot
\* revert returns an error and the process does not exit with code 0.
C32_RevertPropagates ==
    (cli.cmd.verb = "snapshot revert" /\ cpc = "exited" /\ RevertFailed) =>
        /\ ret.err # Nil
        /\ exitCode # 0

(***************************************************************************)
(* Claims about ReportVM (checked under Spec)                              *)
(***************************************************************************)
\* ReportVM is the operation called last and has begun to fill in its info
InReportVM ==
    /\ args.op = "ReportVM"
    /\ loc.op = "ReportVM"

\* C33: once ReportVM's power-state query has passed, isRunning is true if
\* and only if the VM's power state is poweredOn; for a suspended or
\* powered-off VM isRunning is false and no IP wait is issued.
C33_IsRunning ==
    InReportVM =>
        /\ loc.ips # "nil" => (loc.isRunning <=> host.power = "poweredOn")
        /\ host.power # "poweredOn" =>
              /\ ~loc.isRunning
              /\ CallsTo("VM.WaitForNetIP") = <<>>

(***************************************************************************)
(* Fail-fast (checked under Spec)                                          *)
(***************************************************************************)
\* an operation whose calls all go through the guard and that has an error
\* result (ReportVM has neither: its result is the info it assembled)
GuardedOp == args.op # "ReportVM"

\* ReportVM is at its one call that goes through the guard, the retrieval of
\* the network name, which is its last call
ReportVMGuarded == args.op = "ReportVM" /\ opc = "ReportVM_network"

\* the call at position i of `calls` was issued with no failed call before it
\* in the whole invocation
AfterSuccesses(i, names) ==
    /\ i > Len(names)
    /\ \A k \in 1..Len(names) :
          /\ calls[i - Len(names) + k - 1].call = names[k]
          /\ calls[i - Len(names) + k - 1].err = Nil

\* an operation that is still executing after a remote call has seen its
\* last guard pass, unless it is in the device-edit loop or about to return
\* the task's error (while ReportVM executes, the guard evaluated last is
\* not its own); in every operation, ReportVM included, a call that returned
\* an error is the last call of the operation, device edits apart; the clone
\* task and the datastore resolution follow the successful calls they depend
\* on
FailFast ==
    /\ (OpExecuting /\ GuardedOp /\ OpCalls # <<>> /\ guard.out # Nil) =>
          opc \in {"Configure_edit", "Configure_recheck"}
    /\ \A i \in 1..(Len(OpCalls) - 1) :
          OpCalls[i].err # Nil => OpCalls[i].call = "VM.EditDevice"
    /\ \A i \in 1..Len(calls) :
          /\ calls[i].call = "VM.Clone" =>
                AfterSuccesses(i, <<"Finder.ResourcePoolOrDefault", "Finder.Folder">>)
          /\ calls[i].call = "Finder.Datastore" =>
                AfterSuccesses(i, <<"govmomi.NewClient", "Finder.Datacenter">>)

\* a remote call is issued only by an operation whose last guard passed (or
\* by the device-edit loop); an operation with an error result whose last
\* guard failed returns an error, and it does so without another remote
\* call; ReportVM, whose guarded call failed, returns at once
FailFastStep ==
    /\ (calls' # calls /\ OpExecuting /\ GuardedOp /\ OpCalls # <<>>) =>
          (guard.out = Nil \/ opc = "Configure_edit")
    /\ (OpExecuting /\ GuardedOp /\ opc # "Configure_edit"
            /\ opc' = "idle" /\ guard'.out # Nil) => ret'.err # Nil
    /\ (opc = "Configure_recheck" /\ guard.out # Nil) =>
          /\ calls' = calls
          /\ opc' # opc => (opc' = "idle" /\ ret'.err # Nil)
    /\ (ReportVMGuarded /\ calls' # calls /\ guard'.out # Nil) => opc' = "idle"

\* ReportVM too returns an error when its guarded call has yielded one
FailFastEveryStep ==
    /\ FailFastStep
    /\ (ReportVMGuarded /\ opc' = "idle" /\ guard'.out # Nil) => ret'.err # Nil

\* C34 as stated: in every operation, outside Configure's device-edit loop,
\* once a guarded remote call has yielded an error or a timeout, the
\* operation issues no further remote call and returns an error; Clone
\* submits the clone task only after both lookups succeeded, NewClient
\* resolves the datastore only after the connection and the datacenter
\* resolution succeeded.
C34_FailFastEveryOperation == []FailFast /\ [][FailFastEveryStep]_vars

\* C34, amended: in every operation, outside Configure's device-edit loop,
\* once a guarded remote call has yielded an error or a timeout, the
\* operation issues no further remote call, and it returns an error unless
\* it is ReportVM, which has no error result and returns the info; Clone
\* submits the clone task only after both lookups succeeded, NewClient
\* resolves the datastore only after the connection and the datacenter
\* resolution succeeded.
C34_FailFast == []FailFast /\ [][FailFastStep]_vars

\* Clone has returned an error after its folder lookup failed
C34_Witness ==
    /\ args.op = "Clone"
    /\ opc = "idle"
    /\ Len(OpCalls) = 2
    /\ OpCalls[1].err = Nil
    /\ OpCalls[2].call = "Finder.Folder"
    /\ OpCalls[2].err # Nil
    /\ ret.err # Nil
    /\ ~Issued("VM.Clone")

(***************************************************************************)
(* Deadline beats success (checked under Spec)                             *)
(***************************************************************************)
\* the operation called last is one whose body submits a task
TaskBased ==
    \/ TaskOf(args.op).wait # "none"
    \/ args.op = "Configure" /\ reconfigure(args.vmc)

\* the operation called last has waited for its task
Waited == CallsTo("Task.WaitForResult") # <<>>

\* C35: a task-based operation returns success only if it waited for its
\* task, the task reached the succeeded state and the deadline had not
\* elapsed when the wait's result was checked; if the deadline was done when
\* the wait returned, finishTask reports a timeout and the operation returns
\* an error, whatever the task did on the host.
C35_DeadlineBeatsSuccess ==
    (OpJustReturned /\ TaskBased) =>
        /\ ret.err = Nil =>
              (Waited /\ ft.ti.state = "success" /\ ~ft.waitDone)
        /\ (Waited /\ ft.waitDone) =>
              (ret.err # Nil /\ IsTimeoutValue(ft.err.cause))

\* Destroy has reported a failure although the VM has been destroyed
C35_Witness ==
    /\ OpJustReturned
    /\ args.op = "Destroy"
    /\ Waited
    /\ ft.ti.state = "success"
    /\ ft.waitDone
    /\ host.destroyed
    /\ ret.err # Nil

(***************************************************************************)
(* The guard inside Configure's device-edit loop (checked under Spec)      *)
(***************************************************************************)
\* once the loop is over Configure has issued one edit per selected device
\* and has returned nil
EditLoopCompleted ==
    (InConfigure /\ opc = "idle" /\ EditCalls # <<>>) =>
        /\ Len(EditCalls) = Len(loc.matchingDevices)
        /\ ret.err = Nil

\* a pass of the loop issues the edit of the next selected device whatever
\* the deadline and the guard of the pass before say, and leaves the loop
\* only after the last selected device, returning nil
EditLoopStep ==
    (opc = "Configure_edit" /\ (opc' # opc \/ calls' # calls)) =>
        /\ Len(calls') = Len(calls) + 1
        /\ calls'[Len(calls')].call = "VM.EditDevice"
        /\ calls'[Len(calls')].arg = loc.matchingDevices[loc.next]
        /\ guard'.in = calls'[Len(calls')].err
        /\ guard'.done = ctxDone
        /\ IF loc.next < Len(loc.matchingDevices)
           THEN opc' = "Configure_edit"
           ELSE opc' = "idle" /\ ret'.err = Nil

\* C36: in Configure's device-edit loop the guard's result is discarded: if
\* the deadline elapses or an edit fails during the loop, the loop still
\* issues an edit call for every remaining selected device and Configure
\* returns success, not a timeout error.
C36_EditLoopIgnoresGuard == []EditLoopCompleted /\ [][EditLoopStep]_vars

\* Configure has returned success after two edits, the guard of the last one
\* having reported the deadline
C36_Witness ==
    /\ ConfigureReturned
    /\ Len(EditCalls) = 2
    /\ EditCalls[1].err = Nil
    /\ EditCalls[2].err = Nil
    /\ guard.done
    /\ IsTimeoutValue(guard.out)
    /\ opTimedOut
    /\ ret.err = Nil

(***************************************************************************)
(* Configure: ordering and partial application (checked under Spec)        *)
(***************************************************************************)
\* the last remote call of Configure belongs to the network part before the
\* edit loop and did not get past its guard, or the lookup found no network
NetworkPartFailed ==
    /\ NetworkPartCalls # <<>>
    /\ LET last == ConfigureCalls[Len(ConfigureCalls)]
       IN  /\ last.call # "VM.EditDevice"
           /\ \/ last.err # Nil
              \/ guard.out # Nil
              \/ last.call = "Finder.Network" /\ loc.lookup = "nil"

\* C37: when CPU/memory and a network are both requested, every
\* network-related call of Configure comes after the reconfigure task has
\* been submitted and awaited successfully; no second reconfigure is issued
\* and the CPU/memory change stays applied on the host from then on; if the
\* network part fails before the edit loop, Configure returns an error.
C37_PartialApplication ==
    (InConfigure /\ reconfigure(args.vmc) /\ args.vmc.network # "nil") =>
        /\ NetworkPartCalls # <<>> =>
              /\ Len(ConfigureCalls) > 2
              /\ ConfigureCalls[1].call = "VM.Reconfigure"
              /\ ConfigureCalls[1].err = Nil
              /\ ConfigureCalls[2].call = "Task.WaitForResult"
              /\ ConfigureCalls[2].err = Nil
              /\ \A i \in 3..Len(ConfigureCalls) :
                    ConfigureCalls[i].call \notin {"VM.Reconfigure", "Task.WaitForResult"}
              /\ host.cpus = Reconfigured(loc.before, args.vmc).cpus
              /\ host.memory = Reconfigured(loc.before, args.vmc).memory
        /\ (ConfigureReturned /\ NetworkPartFailed) => ret.err # Nil

\* Configure has returned an error from the network part with the CPU count
\* changed and every device where it was
C37_Witness ==
    /\ ConfigureReturned
    /\ OtherNetworkRequested
    /\ args.vmc.cpus = <<2>>
    /\ NetworkPartFailed
    /\ ret.err # Nil
    /\ loc.before.cpus = 1
    /\ host.cpus = 2
    /\ host.devices = loc.before.devices

\* the fields of an info that have been filled in
Filled(d) ==
         (IF d.ips # "nil" THEN {"isRunning"} ELSE {})
    \cup (IF d.ips = "addresses" THEN {"ips"} ELSE {})
    \cup (IF d.path # <<>> THEN {"path"} ELSE {})
    \cup (IF d.cpus # <<>> /\ d.memory # <<>> THEN {"configuration"} ELSE {})
    \cup (IF d.network # "nil" THEN {"network"} ELSE {})

\* the field a call site of ReportVM is there to fill in
SiteField(site) ==
    CASE site = "ReportVM_powerState"   -> "isRunning"
      [] site = "ReportVM_waitForNetIP" -> "ips"
      [] site = "ReportVM_element"      -> "path"
      [] site = "ReportVM_retrieve"     -> "configuration"
      [] site = "ReportVM_network"      -> "network"

\* the fields are filled in the order ref, isRunning, ips, path,
\* cpus/memory, network, the addresses only for a VM reported as running;
\* a field the info lacks is at its zero value
FilledInOrder(d) ==
    /\ d.ref = args.vm.ref
    /\ "network" \in Filled(d) => "configuration" \in Filled(d)
    /\ "configuration" \in Filled(d) => "path" \in Filled(d)
    /\ "path" \in Filled(d) => "isRunning" \in Filled(d)
    /\ "ips" \in Filled(d) => ("isRunning" \in Filled(d) /\ d.isRunning)
    /\ ("path" \in Filled(d) /\ d.isRunning) => "ips" \in Filled(d)
    /\ "isRunning" \notin Filled(d) => ~d.isRunning
    /\ "configuration" \notin Filled(d) => (d.cpus = <<>> /\ d.memory = <<>>)

\* ReportVM's info is filled in order; once ReportVM has returned, its
\* result is that info and no error, every query but the last one succeeded,
\* and the command that called it ends with exit code 0
NeverFails ==
    InReportVM =>
        /\ FilledInOrder(loc)
        /\ opc = "idle" =>
              /\ cpc = "writeVMInfoToConsole" => (ret.err = Nil /\ ret.val = loc)
              /\ cpc = "main" => ret.err = Nil
              /\ cpc = "exited" => exitCode = 0
              /\ \A i \in 1..(Len(OpCalls) - 1) : OpCalls[i].err = Nil

\* a query of ReportVM that fails or finds the deadline elapsed ends
\* ReportVM at that step, without an error and without the field of that
\* step; a query that succeeds within the deadline fills in its field, and
\* ReportVM goes on unless it was the last one
NeverFailsStep ==
    (args.op = "ReportVM" /\ OpExecuting /\ calls' # calls) =>
        IF ctxDone \/ calls'[Len(calls')].err # Nil
        THEN /\ opc' = "idle"
             /\ ret'.err = Nil
             /\ ret'.val = loc'
             /\ SiteField(opc) \notin Filled(loc')
        ELSE /\ opc # "ReportVM_retrieve" => SiteField(opc) \in Filled(loc')
             /\ opc' = "idle" <=> opc = "ReportVM_network"

\* C38: ReportVM never reports a failure: if one of its remote queries
\* fails or the deadline elapses, it stops at that step and returns the info
\* assembled so far, the later fields at their zero values, and the info or
\* clone command still prints it and succeeds; the fields are filled in the
\* order ref, isRunning, ips, path, cpus/memory, network.
C38_ReportVMNeverFails == []NeverFails /\ [][NeverFailsStep]_vars

\* info has exited with code 0 on an info that stops after the addresses,
\* the path query having failed
C38_Witness ==
    /\ cli.cmd.verb = "info"
    /\ cpc = "exited"
    /\ exitCode = 0
    /\ InReportVM
    /\ Filled(loc) = {"isRunning", "ips"}
    /\ OpCalls[Len(OpCalls)].call = "Finder.Element"
    /\ OpCalls[Len(OpCalls)].err # Nil

====
